---- MODULE Spec2Model ----
(***************************************************************************)
(* Collateral vault backend: the ledger store (vaults, transaction_records,*)
(* audit_logs), the vault / transaction managers and the CPI operation     *)
(* coordinator (lock_collateral, unlock_collateral, transfer_collateral),  *)
(* as concurrent tasks that interleave at their await points.              *)
(***************************************************************************)
EXTENDS Integers, Sequences, FiniteSets, TLC

(***************************************************************************)
(* Bounds                                                                  *)
(***************************************************************************)
\* Width of the integer types of the model: i64 / u64 of the source are
\* modelled by Bits-bit two's complement / unsigned integers.
Bits == 4

Pow2(n) == 2 ^ n
MaxI64 == Pow2(Bits - 1) - 1
MinI64 == 0 - Pow2(Bits - 1)
MaxU64 == Pow2(Bits) - 1

\* The concurrent request tasks, the vault rows and the operation ids.
Procs == {"t1", "t2"}
VaultIds == {"v1", "v2"}
OpIds == {"opA", "opB"}

\* u64 amounts a caller may pass: small ones, and the ones above i64::MAX.
Amounts == {1, MaxU64}

\* Idempotency keys and on-chain signatures of the transaction manager's callers.
Keys == {"keyA", "keyB"}
Signatures == {"sigA", "sigB"}

\* Most transaction records the callers of the transaction manager create.
MaxRecords == 2

None == "none"

\* A local that will hold a row or a struct, before it is bound.
Unbound == [bound |-> FALSE]

\* Largest max_retries a submitter is configured with (the default is 3).
MaxRetries == 3

\* The permits the builder's semaphore is created with (the configured
\* MAX_CONCURRENT_TRANSACTIONS, 5 by default), and the tasks that ask for
\* a build: two more than the permits.
max_concurrent_tx == 2
NumBuilders == 4
Builders == 1..NumBuilders

\* The rate limiter's bucket: capacity and refill per tick (100 and 10 per
\* second in the middleware), and the cost of a request.
MAX_TOKENS == 2
REFILL_RATE == 1
TOKENS_PER_REQUEST == 1

\* Client identifiers: a bearer token, and the one of requests without.
Clients == {"keyA", "default_client"}

\* Most vault ids in a batch given to bulk_reconcile.
MaxBatch == 3

\* The clock runs from 0 to MaxTime ticks. A cache entry is fresh for
\* CacheTtl ticks (5 seconds), a pending entry expires PendingHorizon ticks
\* (5 minutes) after it is added.
MaxTime == 3
CacheTtl == 1
PendingHorizon == 2

(***************************************************************************)
(* Integer arithmetic of the source                                        *)
(***************************************************************************)
\* `amount as i64`: reinterpretation of a u64 as two's complement.
AsI64(u) == IF u > MaxI64 THEN u - Pow2(Bits) ELSE u

Overflows(x) == x > MaxI64 \/ x < MinI64

\* i64 arithmetic of a build without overflow checks: wraps.
Wrap(x) == ((x - MinI64) % Pow2(Bits)) + MinI64

(***************************************************************************)
(* State                                                                   *)
(***************************************************************************)
VARIABLES
    vaults,               \* table vaults: id -> row
    transaction_records,  \* table transaction_records, in insertion order
    audit_logs,           \* table audit_logs (its rows)
    pending_operations,   \* CPIManager.pending_operations (keys)
    task,                 \* per request task: position and locals
    chain_vaults,         \* on-chain program: the Vault accounts
    chain_log,            \* on-chain program: the instructions executed, in order
    expires_at,           \* CPIManager.pending_operations: expires_at of each entry
    cache,                \* BalanceTracker.cache: vault id -> BalanceCache
    balance_snapshots,    \* table balance_snapshots (its rows)
    is_healthy,           \* VaultMonitor.is_healthy
    critical_detected,    \* a reconciliation or health check has found a critical issue
    now,                  \* Utc::now(), in ticks
    permits,              \* TransactionBuilder.rate_limiter: the permits available
    builds,               \* per build task: its position in build_*_tx
    rate_limit_buckets    \* table rate_limit_buckets: client key -> bucket

vars == <<vaults, transaction_records, audit_logs, pending_operations, task,
          chain_vaults, chain_log, expires_at, cache, balance_snapshots,
          is_healthy, critical_detected, now, permits, builds, rate_limit_buckets>>

\* The state of the on-chain program.
chain == <<chain_vaults, chain_log>>

\* The builder's concurrency gate and the rate limiter's buckets.
gates == <<permits, builds, rate_limit_buckets>>

\* The state of the balance tracker, of the monitor, the clock, and the gates.
services == <<cache, balance_snapshots, is_healthy, critical_detected, now, gates>>

Balances(t, l, a) == [total_balance |-> t, locked_balance |-> l, available_balance |-> a]

VaultRow(user_pubkey, t, l, a) ==
    [user_pubkey |-> user_pubkey, total_balance |-> t, locked_balance |-> l,
     available_balance |-> a, is_active |-> TRUE]

\* An on-chain Vault account (u64 balances).
ChainVault(t, l, a) ==
    [total_balance |-> t, locked_balance |-> l, available_balance |-> a, is_active |-> TRUE]

IdleTask ==
    [pc |-> "idle", op |-> None, vault_id |-> None, destination_vault_id |-> None,
     amount |-> 0, operation_id |-> None,
     vault |-> Unbound, destination_vault |-> Unbound,
     tx_record |-> 0, destination_tx_record |-> 0,
     result |-> None, side |-> None, current |-> Unbound,
     applied |-> {}, overlap |-> {}, ret |-> None,
     idempotency_key |-> None, existing |-> {}, returned |-> Unbound,
     user_pubkey |-> None, requested |-> Unbound, after |-> {}, request |-> Unbound,
     retry_count |-> 0, max_retries |-> 0, outcomes |-> <<>>, limiter |-> None,
     bulk |-> Unbound]

\* Two vaults holding deposits, the first with part of them locked, the
\* second holding the largest total an i64 can store.
InitVault(v) ==
    IF v = "v1" THEN VaultRow("u1", MaxI64 - 1, 2, MaxI64 - 3)
                ELSE VaultRow("u2", MaxI64, 0, MaxI64)

\* The on-chain accounts of the two vaults hold the same balances.
InitChainVault(v) ==
    ChainVault(InitVault(v).total_balance, InitVault(v).locked_balance,
               InitVault(v).available_balance)

\* The services as they are constructed: no pending entry, an empty cache,
\* no snapshot, health status true (BalanceTracker::new, VaultMonitor::new),
\* every permit available (TransactionBuilder::new), no bucket.
InitServices ==
    /\ expires_at = [o \in OpIds |-> 0]
    /\ cache = <<>>
    /\ balance_snapshots = {}
    /\ is_healthy = TRUE
    /\ critical_detected = FALSE
    /\ now = 0
    /\ permits = max_concurrent_tx
    /\ builds = [b \in Builders |-> "idle"]
    /\ rate_limit_buckets = <<>>

Init ==
    /\ vaults = [v \in VaultIds |-> InitVault(v)]
    /\ transaction_records = <<>>
    /\ audit_logs = {}
    /\ pending_operations = {}
    /\ task = [p \in Procs |-> IdleTask]
    /\ chain_vaults = [v \in VaultIds |-> InitChainVault(v)]
    /\ chain_log = <<>>
    /\ InitServices

InFlight(p) == task[p].pc \notin {"idle", "done"}

\* The task returns: its result is `ret`.
Return(p, ret) == [task[p] EXCEPT !.pc = "done", !.ret = ret]

(***************************************************************************)
(* Ledger store: database.rs                                               *)
(***************************************************************************)
\* VaultRepository::update_vault_balances: the invariant test it makes
\* before the UPDATE (locked + available is an i64 addition).
InvariantOk(total, locked, available) == total = Wrap(locked + available)

\* The UPDATE of update_vault_balances: overwrites the three balances of
\* the row with the values passed, whatever the row holds.
WriteBalances(vs, vault_id, total, locked, available) ==
    [vs EXCEPT ![vault_id] = [@ EXCEPT !.total_balance = total,
                                       !.locked_balance = locked,
                                       !.available_balance = available]]

\* TransactionRepository::create_transaction: the row the INSERT adds.
NewRecord(vault_id, operation_type, amount, signature, idempotency_key) ==
    [vault_id |-> vault_id, operation_type |-> operation_type, amount |-> amount,
     signature |-> signature, status |-> "pending", error_message |-> None,
     idempotency_key |-> idempotency_key]

\* TransactionRepository::update_transaction_status: the UPDATE sets status
\* and error_message, and signature = COALESCE($3, signature).
SetStatus(recs, id, status, signature, error_message) ==
    [recs EXCEPT ![id] = [@ EXCEPT !.status = status,
                                   !.signature = IF signature = None THEN @ ELSE signature,
                                   !.error_message = error_message]]

\* ExpireStale as it would be if the UPDATE matched no record.
ExpireNone(recs, k) == recs

\* TransactionRepository::cleanup_stale_transactions: every pending record
\* created before the cutoff becomes failed. Records are in creation order,
\* so the records older than the cutoff are the first k.
ExpireStale(recs, k) ==
    [i \in 1..Len(recs) |->
        IF i <= k /\ recs[i].status = "pending"
        THEN [recs[i] EXCEPT !.status = "failed", !.error_message = "Transaction expired"]
        ELSE recs[i]]

\* AuditRepository::log_event: the row appended to audit_logs.
AuditEntry(event_type, vault_id, old, new, transaction_id) ==
    [event_type |-> event_type, vault_id |-> vault_id, old |-> old, new |-> new,
     transaction_id |-> transaction_id]

RowBalances(row) == Balances(row.total_balance, row.locked_balance, row.available_balance)

(***************************************************************************)
(* Coordinator: cpi_manager.rs                                             *)
(***************************************************************************)
\* InsufficientBalance as it would be if the operations made no pre-check.
NoPreCheck(op, vault, amount) == FALSE

\* The balance pre-check of the three operations, on the row read at entry.
InsufficientBalance(op, vault, amount) ==
    IF op = "lock" THEN vault.available_balance < AsI64(amount)
                   ELSE vault.locked_balance < AsI64(amount)

\* NewBalances as it would be if an unlock took the amount out of the vault
\* (off locked and off total) instead of returning it to available.
UnlockLeavesVault(op, side, snap, amount) ==
    LET a == AsI64(amount) IN
    CASE op = "lock" ->
            Balances(snap.total_balance, snap.locked_balance + a, snap.available_balance - a)
      [] op = "transfer" /\ side = "destination" ->
            Balances(snap.total_balance + a, snap.locked_balance, snap.available_balance + a)
      [] OTHER ->
            Balances(snap.total_balance - a, snap.locked_balance - a, snap.available_balance)

\* The balances an operation computes from the rows it read at entry
\* (exact integers, before any wrap).
NewBalances(op, side, snap, amount) ==
    LET a == AsI64(amount) IN
    CASE op = "lock" ->
            Balances(snap.total_balance, snap.locked_balance + a, snap.available_balance - a)
      [] op = "unlock" ->
            Balances(snap.total_balance, snap.locked_balance - a, snap.available_balance + a)
      [] op = "transfer" /\ side = "source" ->
            Balances(snap.total_balance - a, snap.locked_balance - a, snap.available_balance)
      [] OTHER ->
            Balances(snap.total_balance + a, snap.locked_balance, snap.available_balance + a)

AnyOverflow(b) ==
    Overflows(b.total_balance) \/ Overflows(b.locked_balance) \/ Overflows(b.available_balance)

Wrapped(b) == Balances(Wrap(b.total_balance), Wrap(b.locked_balance), Wrap(b.available_balance))

\* The snapshot row an update is computed from, and the vault it goes to.
SnapOf(t) == IF t.side = "source" THEN t.vault ELSE t.destination_vault
TargetOf(t) == IF t.side = "source" THEN t.vault_id ELSE t.destination_vault_id
TxOf(t) == IF t.side = "source" THEN t.tx_record ELSE t.destination_tx_record

\* The amount recorded on a transaction record: amount as i64, negated on
\* the source side of a transfer.
RecordAmount(op, side, amount) ==
    IF op = "transfer" /\ side = "source" THEN Wrap(0 - AsI64(amount)) ELSE AsI64(amount)

\* AfterRemove as it would be if the balance updates were made whatever the
\* submission returned.
AfterRemoveAlwaysUpdates(op, result) == "read_current"

\* What follows submit_and_confirm once the pending entry is removed:
\* the balance updates on success, the error path otherwise.
AfterRemove(op, result) ==
    IF result = "Ok" THEN "read_current"
    ELSE IF op = "transfer" THEN "mark_destination_failed" ELSE "done"

\* The locals of a call that has just been made, and the calls it overlaps.
Invoke(p, op, v, d, a, o) ==
    LET others == {q \in Procs \ {p} : InFlight(q)} IN
    [q \in Procs |->
        IF q = p
        THEN [IdleTask EXCEPT !.pc = "get_vault", !.op = op, !.vault_id = v,
                              !.destination_vault_id = d, !.amount = a,
                              !.operation_id = o, !.overlap = others]
        ELSE IF q \in others
             THEN [task[q] EXCEPT !.overlap = @ \cup {p}]
             ELSE task[q]]

\* A request arrives: lock_collateral / unlock_collateral / transfer_collateral
\* is called with its arguments.
Call(p) ==
    /\ task[p].pc = "idle"
    /\ p = "t2" => task["t1"].pc # "idle"
    /\ \E op \in {"lock", "unlock", "transfer"}, v \in VaultIds, d \in VaultIds,
          a \in Amounts, o \in OpIds :
          /\ op # "transfer" => d = v
          /\ p = "t1" => o = "opA"
          /\ task' = Invoke(p, op, v, d, a, o)
    /\ UNCHANGED <<vaults, transaction_records, audit_logs, pending_operations>>
    /\ UNCHANGED <<chain, services, expires_at>>

\* get_vault_by_id of the (source) vault; lock and unlock pre-check here.
GetVault(p) ==
    LET t == task[p] IN
    /\ t.pc = "get_vault"
    /\ \/ task' = [task EXCEPT ![p] = Return(p, "NotFound")]
       \/ LET row == vaults[t.vault_id] IN
          task' = [task EXCEPT ![p] =
               IF t.op = "transfer"
               THEN [t EXCEPT !.pc = "get_destination", !.vault = row]
               ELSE IF InsufficientBalance(t.op, row, t.amount)
                    THEN [t EXCEPT !.pc = "done", !.ret = "InsufficientBalance", !.vault = row]
                    ELSE [t EXCEPT !.pc = "check_pending", !.vault = row]]
    /\ UNCHANGED <<vaults, transaction_records, audit_logs, pending_operations>>
    /\ UNCHANGED <<chain, services, expires_at>>

\* transfer_collateral: get_vault_by_id of the destination, then the
\* pre-check on the source row read before.
GetDestination(p) ==
    LET t == task[p] IN
    /\ t.pc = "get_destination"
    /\ \/ task' = [task EXCEPT ![p] = Return(p, "NotFound")]
       \/ LET row == vaults[t.destination_vault_id] IN
          task' = [task EXCEPT ![p] =
               IF InsufficientBalance(t.op, t.vault, t.amount)
               THEN [t EXCEPT !.pc = "done", !.ret = "InsufficientBalance", !.destination_vault = row]
               ELSE [t EXCEPT !.pc = "check_pending", !.destination_vault = row]]
    /\ UNCHANGED <<vaults, transaction_records, audit_logs, pending_operations>>
    /\ UNCHANGED <<chain, services, expires_at>>

\* is_operation_pending: read lock on the pending map.
CheckPending(p) ==
    LET t == task[p] IN
    /\ t.pc = "check_pending"
    /\ task' = [task EXCEPT ![p] =
                  IF t.operation_id \in pending_operations
                  THEN [t EXCEPT !.pc = "done", !.ret = "ConcurrentConflict"]
                  ELSE [t EXCEPT !.pc = "add_pending"]]
    /\ UNCHANGED <<vaults, transaction_records, audit_logs, pending_operations>>
    /\ UNCHANGED <<chain, services, expires_at>>

\* add_pending_operation (write lock, insert), then build_*_tx, which
\* fetches a blockhash over RPC and returns its error with `?`.
AddPending(p) ==
    LET t == task[p] IN
    /\ t.pc = "add_pending"
    /\ pending_operations' = pending_operations \cup {t.operation_id}
    /\ expires_at' = [expires_at EXCEPT ![t.operation_id] = now + PendingHorizon]
    /\ \/ task' = [task EXCEPT ![p] = [t EXCEPT !.pc = "create_tx", !.side = "source"]]
       \/ task' = [task EXCEPT ![p] = Return(p, "SolanaClientError")]
    /\ UNCHANGED <<vaults, transaction_records, audit_logs>>
    /\ UNCHANGED <<chain, services>>

\* TransactionManager::create_transaction: INSERT, then the audit row; either
\* statement can fail and the error is returned with `?`.
CreateTx(p) ==
    LET t == task[p]
        rec == NewRecord(TargetOf(t), t.op, RecordAmount(t.op, t.side, t.amount), None, None)
        id == Len(transaction_records) + 1
        entry == AuditEntry("transaction_created", TargetOf(t), None, None, None)
    IN
    /\ t.pc = "create_tx"
    /\ \/ /\ task' = [task EXCEPT ![p] = Return(p, "DatabaseError")]
          /\ UNCHANGED <<transaction_records, audit_logs>>
       \/ /\ transaction_records' = Append(transaction_records, rec)
          /\ \/ /\ UNCHANGED audit_logs
                /\ task' = [task EXCEPT ![p] =
                      IF t.side = "source"
                      THEN [t EXCEPT !.pc = "done", !.ret = "DatabaseError", !.tx_record = id]
                      ELSE [t EXCEPT !.pc = "done", !.ret = "DatabaseError",
                                     !.destination_tx_record = id]]
             \/ /\ audit_logs' = audit_logs \cup {entry}
                /\ task' = [task EXCEPT ![p] =
                      IF t.side = "source"
                      THEN IF t.op = "transfer"
                           THEN [t EXCEPT !.pc = "create_tx", !.side = "destination",
                                          !.tx_record = id]
                           ELSE [t EXCEPT !.pc = "submit", !.tx_record = id]
                      ELSE [t EXCEPT !.pc = "submit", !.destination_tx_record = id]]
    /\ UNCHANGED <<vaults, pending_operations>>
    /\ UNCHANGED <<chain, services, expires_at>>

\* submit_and_confirm, first half: submit_transaction returns a signature
\* or, after its retries, TransactionFailed.
Submit(p) ==
    LET t == task[p] IN
    /\ t.pc = "submit"
    /\ \/ task' = [task EXCEPT ![p] = [t EXCEPT !.pc = "confirm"]]
       \/ task' = [task EXCEPT ![p] =
                     [t EXCEPT !.pc = "remove_pending", !.result = "TransactionFailed"]]
    /\ UNCHANGED <<vaults, transaction_records, audit_logs, pending_operations>>
    /\ UNCHANGED <<chain, services, expires_at>>

\* submit_and_confirm, second half: update_transaction_status(Confirmed) on
\* the (source) record, then the audit row.
Confirm(p) ==
    LET t == task[p]
        entry == AuditEntry("transaction_status_updated", transaction_records[t.tx_record].vault_id,
                            None, "confirmed", t.tx_record)
    IN
    /\ t.pc = "confirm"
    /\ \/ /\ task' = [task EXCEPT ![p] =
                        [t EXCEPT !.pc = "remove_pending", !.result = "DatabaseError"]]
          /\ UNCHANGED <<transaction_records, audit_logs>>
       \/ /\ transaction_records' = SetStatus(transaction_records, t.tx_record, "confirmed", None, None)
          /\ \/ /\ UNCHANGED audit_logs
                /\ task' = [task EXCEPT ![p] =
                              [t EXCEPT !.pc = "remove_pending", !.result = "DatabaseError"]]
             \/ /\ audit_logs' = audit_logs \cup {entry}
                /\ task' = [task EXCEPT ![p] =
                              [t EXCEPT !.pc = "remove_pending", !.result = "Ok"]]
    /\ UNCHANGED <<vaults, pending_operations>>
    /\ UNCHANGED <<chain, services, expires_at>>

\* remove_pending_operation, then the match on the submission result. On
\* success the new balances are computed from the rows read at entry; an
\* overflow there aborts the task in a build with overflow checks.
RemovePending(p) ==
    LET t == task[p]
        next == AfterRemove(t.op, t.result)
    IN
    /\ t.pc = "remove_pending"
    /\ pending_operations' = pending_operations \ {t.operation_id}
    /\ expires_at' = [expires_at EXCEPT ![t.operation_id] = 0]
    /\ \/ task' = [task EXCEPT ![p] =
              [t EXCEPT !.pc = next, !.side = "source",
                        !.ret = IF next = "done" THEN t.result ELSE None]]
       \/ /\ next = "read_current"
          /\ AnyOverflow(NewBalances(t.op, "source", t.vault, t.amount))
          /\ task' = [task EXCEPT ![p] = Return(p, "Panic")]
    /\ UNCHANGED <<vaults, transaction_records, audit_logs>>
    /\ UNCHANGED <<chain, services>>

\* transfer_collateral, error branch: the destination record is marked
\* failed, then the submission error is returned.
MarkDestinationFailed(p) ==
    LET t == task[p]
        entry == AuditEntry("transaction_status_updated",
                            transaction_records[t.destination_tx_record].vault_id,
                            None, "failed", t.destination_tx_record)
    IN
    /\ t.pc = "mark_destination_failed"
    /\ \/ /\ task' = [task EXCEPT ![p] = Return(p, "DatabaseError")]
          /\ UNCHANGED <<transaction_records, audit_logs>>
       \/ /\ transaction_records' =
                SetStatus(transaction_records, t.destination_tx_record, "failed", None, t.result)
          /\ \/ /\ UNCHANGED audit_logs
                /\ task' = [task EXCEPT ![p] = Return(p, "DatabaseError")]
             \/ /\ audit_logs' = audit_logs \cup {entry}
                /\ task' = [task EXCEPT ![p] = Return(p, t.result)]
    /\ UNCHANGED <<vaults, pending_operations>>
    /\ UNCHANGED <<chain, services, expires_at>>

\* The balances an update_balances call is given: those of a direct caller,
\* or the ones the coordinator computed from the rows read at entry.
Requested(t) ==
    IF t.op = "update_balances" THEN t.requested
    ELSE Wrapped(NewBalances(t.op, t.side, SnapOf(t), t.amount))

\* VaultManager::update_balances, first statement: reads the current row
\* for the audit entry.
ReadCurrent(p) ==
    LET t == task[p] IN
    /\ t.pc = "read_current"
    /\ \/ task' = [task EXCEPT ![p] = Return(p, "NotFound")]
       \/ task' = [task EXCEPT ![p] =
                     [t EXCEPT !.pc = "write_balances", !.current = vaults[TargetOf(t)]]]
    /\ UNCHANGED <<vaults, transaction_records, audit_logs, pending_operations>>
    /\ UNCHANGED <<chain, services, expires_at>>

\* VaultManager::update_balances, second statement:
\* VaultRepository::update_vault_balances with the balances computed from
\* the rows read at entry.
UpdateVaultBalances(p) ==
    LET t == task[p]
        nb == Requested(t)
    IN
    /\ t.pc = "write_balances"
    /\ \/ /\ ~InvariantOk(nb.total_balance, nb.locked_balance, nb.available_balance)
          /\ task' = [task EXCEPT ![p] = Return(p, "InvalidInput")]
          /\ UNCHANGED vaults
       \/ /\ Overflows(nb.locked_balance + nb.available_balance)
          /\ task' = [task EXCEPT ![p] = Return(p, "Panic")]
          /\ UNCHANGED vaults
       \/ /\ InvariantOk(nb.total_balance, nb.locked_balance, nb.available_balance)
          /\ \/ /\ task' = [task EXCEPT ![p] = Return(p, "DatabaseError")]
                /\ UNCHANGED vaults
             \/ /\ vaults' = WriteBalances(vaults, TargetOf(t), nb.total_balance,
                                           nb.locked_balance, nb.available_balance)
                /\ task' = [task EXCEPT ![p] =
                              [t EXCEPT !.pc = "audit", !.applied = @ \cup {t.side}]]
    /\ UNCHANGED <<transaction_records, audit_logs, pending_operations>>
    /\ UNCHANGED <<chain, services, expires_at>>

\* VaultManager::update_balances, third statement: the balance_updated
\* audit row; then the next update of a transfer, or the return.
Audit(p) ==
    LET t == task[p]
        nb == Requested(t)
        entry == AuditEntry("balance_updated", TargetOf(t), RowBalances(t.current), nb, TxOf(t))
    IN
    /\ t.pc = "audit"
    /\ \/ /\ task' = [task EXCEPT ![p] = Return(p, "DatabaseError")]
          /\ UNCHANGED audit_logs
       \/ /\ audit_logs' = audit_logs \cup {entry}
          /\ IF t.op = "transfer" /\ t.side = "source"
             THEN \/ task' = [task EXCEPT ![p] =
                        [t EXCEPT !.pc = "read_current", !.side = "destination"]]
                  \/ /\ AnyOverflow(NewBalances(t.op, "destination", t.destination_vault, t.amount))
                     /\ task' = [task EXCEPT ![p] = Return(p, "Panic")]
             ELSE task' = [task EXCEPT ![p] = Return(p, "Ok")]
    /\ UNCHANGED <<vaults, transaction_records, pending_operations>>
    /\ UNCHANGED <<chain, services, expires_at>>

\* Monitor cleanup loop: cleanup_stale_transactions with some cutoff.
CleanupStale ==
    /\ \E k \in 0..Len(transaction_records) :
          transaction_records' = ExpireStale(transaction_records, k)
    /\ UNCHANGED <<vaults, audit_logs, pending_operations, task>>
    /\ UNCHANGED <<chain, services, expires_at>>

\* One step of a call that has been made.
Steps(p) ==
    \/ GetVault(p)
    \/ GetDestination(p)
    \/ CheckPending(p)
    \/ AddPending(p)
    \/ CreateTx(p)
    \/ Submit(p)
    \/ Confirm(p)
    \/ RemovePending(p)
    \/ MarkDestinationFailed(p)
    \/ ReadCurrent(p)
    \/ UpdateVaultBalances(p)
    \/ Audit(p)

\* One step of the request task p.
TaskStep(p) == Call(p) \/ Steps(p)

\* The coordinator serving concurrent requests.
Next == \E p \in Procs : TaskStep(p)

Spec == Init /\ [][Next]_vars

\* The coordinator serving one request while the monitor's cleanup loop runs.
NextMonitor == TaskStep("t1") \/ CleanupStale

SpecMonitor == Init /\ [][NextMonitor]_vars

\* The same, the cleanup loop firing again and again (tokio interval), each
\* record being older than the cutoff of some later round; a request task
\* may stop at any await point.
SpecCleanup == Init /\ [][NextMonitor]_vars /\ WF_vars(CleanupStale)

(***************************************************************************)
(* Transaction manager and its callers: vault_manager.rs, api.rs           *)
(***************************************************************************)
\* UniqueRecords as it would be without the constraint on idempotency_key.
UniqueSignaturesOnly(recs) ==
    \A i, j \in 1..Len(recs) :
        i # j => (recs[i].signature # None => recs[i].signature # recs[j].signature)

\* UniqueRecords as it would be without the constraint on signature.
UniqueKeysOnly(recs) ==
    \A i, j \in 1..Len(recs) :
        i # j => (recs[i].idempotency_key # None
                    => recs[i].idempotency_key # recs[j].idempotency_key)

\* The uniqueness constraints of table transaction_records (on signature and
\* on idempotency_key, nulls apart): what a statement must leave true.
UniqueRecords(recs) ==
    \A i, j \in 1..Len(recs) :
        i # j =>
            /\ recs[i].signature # None => recs[i].signature # recs[j].signature
            /\ recs[i].idempotency_key # None => recs[i].idempotency_key # recs[j].idempotency_key

\* get_transaction_by_idempotency_key as it would be if it never found a row.
NeverFindsKey(recs, key) == 0

\* TransactionRepository::get_transaction_by_idempotency_key: the id of the
\* latest record with the key (ORDER BY created_at DESC LIMIT 1), 0 for none.
RecordWithKey(recs, key) ==
    LET hits == {i \in 1..Len(recs) : recs[i].idempotency_key = key} IN
    IF hits = {} THEN 0 ELSE CHOOSE i \in hits : \A j \in hits : j <= i

\* What a caller sees of a record: its id and what was recorded.
Returned(recs, id) ==
    [id |-> id, vault_id |-> recs[id].vault_id, operation_type |-> recs[id].operation_type,
     amount |-> recs[id].amount, idempotency_key |-> recs[id].idempotency_key]

\* The records that hold a key.
Holding(recs, key) == {i \in 1..Len(recs) : recs[i].idempotency_key = key}

\* The amount a deposit or withdrawal records: positive for inflow, negative
\* for outflow.
SignedAmount(op, amount) ==
    IF op = "withdraw" THEN Wrap(0 - AsI64(amount)) ELSE AsI64(amount)

\* A deposit or withdraw request arrives at the API with an optional
\* idempotency key.
ApiCall(p) ==
    /\ task[p].pc = "idle"
    /\ p = "t2" => task["t1"].pc # "idle"
    /\ \E op \in {"deposit", "withdraw"}, v \in VaultIds, a \in Amounts, k \in Keys \cup {None} :
          /\ p = "t1" => k # "keyB"
          /\ task' = [task EXCEPT ![p] =
                     [IdleTask EXCEPT !.pc = "lookup_key", !.op = op, !.vault_id = v,
                                      !.destination_vault_id = v, !.amount = a,
                                      !.idempotency_key = k,
                                      !.existing = IF k = None THEN {}
                                                   ELSE Holding(transaction_records, k)]]
    /\ UNCHANGED <<vaults, transaction_records, audit_logs, pending_operations>>
    /\ UNCHANGED <<chain, services, expires_at>>

\* deposit / withdraw handler: the idempotency check. An existing record is
\* returned as it is stored.
LookupKey(p) ==
    LET t == task[p]
        id == IF t.idempotency_key = None THEN 0
              ELSE RecordWithKey(transaction_records, t.idempotency_key)
    IN
    /\ t.pc = "lookup_key"
    /\ \/ /\ t.idempotency_key # None
          /\ task' = [task EXCEPT ![p] = Return(p, "DatabaseError: lookup")]
       \/ task' = [task EXCEPT ![p] =
                     IF id # 0
                     THEN [t EXCEPT !.pc = "done", !.ret = "Existing",
                                    !.returned = Returned(transaction_records, id)]
                     ELSE [t EXCEPT !.pc = "begin"]]
    /\ UNCHANGED <<vaults, transaction_records, audit_logs, pending_operations>>
    /\ UNCHANGED <<chain, services, expires_at>>

\* deposit / withdraw handler after the idempotency check: the vault lookup,
\* the pre-check of withdraw, and the new pending record with the key
\* (TransactionManager::create_transaction: INSERT, then the audit row).
Begin(p) ==
    LET t == task[p]
        rec == NewRecord(t.vault_id, t.op, SignedAmount(t.op, t.amount), None, t.idempotency_key)
        recs == Append(transaction_records, rec)
        id == Len(recs)
        entry == AuditEntry("transaction_created", t.vault_id, None, None, None)
    IN
    /\ t.pc = "begin"
    /\ \/ /\ task' = [task EXCEPT ![p] = Return(p, "NotFound")]
          /\ UNCHANGED <<transaction_records, audit_logs>>
       \/ /\ t.op = "withdraw"
          /\ vaults[t.vault_id].available_balance < AsI64(t.amount)
          /\ task' = [task EXCEPT ![p] = Return(p, "InsufficientBalance")]
          /\ UNCHANGED <<transaction_records, audit_logs>>
       \/ /\ t.op = "withdraw" => ~(vaults[t.vault_id].available_balance < AsI64(t.amount))
          /\ \/ /\ task' = [task EXCEPT ![p] = Return(p, "DatabaseError: create")]
                /\ UNCHANGED <<transaction_records, audit_logs>>
             \/ /\ UniqueRecords(recs)
                /\ transaction_records' = recs
                /\ \/ /\ UNCHANGED audit_logs
                      /\ task' = [task EXCEPT ![p] = Return(p, "DatabaseError: audit")]
                   \/ /\ audit_logs' = audit_logs \cup {entry}
                      /\ task' = [task EXCEPT ![p] =
                                    [t EXCEPT !.pc = "done", !.ret = "Created",
                                              !.returned = Returned(recs, id)]]
    /\ UNCHANGED <<vaults, pending_operations>>
    /\ UNCHANGED <<chain, services, expires_at>>

\* TransactionManager::create_transaction called with the signature of a
\* transaction already sent: INSERT (rejected when it breaks a uniqueness
\* constraint), then the audit row.
RecordTransaction ==
    /\ Len(transaction_records) < MaxRecords
    /\ \E sig \in Signatures :
          LET v == "v1"
              recs == Append(transaction_records, NewRecord(v, "deposit", 1, sig, None))
          IN
          IF UniqueRecords(recs)
          THEN /\ transaction_records' = recs
               /\ audit_logs' = audit_logs \cup
                     {AuditEntry("transaction_created", v, None, None, None)}
          ELSE UNCHANGED <<transaction_records, audit_logs>>
    /\ UNCHANGED <<vaults, pending_operations, task>>
    /\ UNCHANGED <<chain, services, expires_at>>

\* TransactionRepository::update_transaction_status called with the signature
\* of a submitted transaction (pending -> processing): the UPDATE, rejected
\* when it breaks a uniqueness constraint.
UpdateTransactionStatus ==
    /\ \E id \in 1..Len(transaction_records), sig \in Signatures :
          /\ transaction_records[id].status = "pending"
          /\ LET recs == SetStatus(transaction_records, id, "processing", sig, None) IN
             IF UniqueRecords(recs)
             THEN transaction_records' = recs
             ELSE UNCHANGED transaction_records
    /\ UNCHANGED <<vaults, audit_logs, pending_operations, task>>
    /\ UNCHANGED <<chain, services, expires_at>>

\* The transaction manager serving concurrent API requests and direct callers.
NextTx ==
    \/ \E p \in Procs : ApiCall(p) \/ LookupKey(p) \/ Begin(p)
    \/ RecordTransaction
    \/ UpdateTransactionStatus

SpecTx == Init /\ [][NextTx]_vars

(***************************************************************************)
(* Direct callers of VaultManager::update_balances                         *)
(***************************************************************************)
\* The i64 values a caller passes: the extremes, and the ones around zero.
UpdateValues == {MinI64, 0 - 1, 0, 1, MaxI64}

\* update_balances is called on the first vault with one of some triples.
CallUpdateIn(p, triples) ==
    /\ task[p].pc = "idle"
    /\ p = "t2" => task["t1"].pc # "idle"
    /\ \E requested \in triples :
          task' = [task EXCEPT ![p] =
                     [IdleTask EXCEPT !.pc = "read_current", !.op = "update_balances",
                                      !.vault_id = "v1", !.destination_vault_id = "v1",
                                      !.side = "source",
                                      !.requested = requested]]
    /\ UNCHANGED <<vaults, transaction_records, audit_logs, pending_operations>>
    /\ UNCHANGED <<chain, services, expires_at>>

\* update_balances is called on the first vault with some triple.
CallUpdate(p) ==
    CallUpdateIn(p, {Balances(total, locked, available) :
                        total \in UpdateValues, locked \in UpdateValues,
                        available \in UpdateValues})

\* The vault manager serving concurrent update_balances calls.
NextLedger ==
    \E p \in Procs : CallUpdate(p) \/ ReadCurrent(p) \/ UpdateVaultBalances(p) \/ Audit(p)

SpecLedger == Init /\ [][NextLedger]_vars

(***************************************************************************)
(* Vault creation: VaultManager::create_vault                              *)
(***************************************************************************)
\* The owners create_vault is called for: one with a vault, one without.
Owners == {"u1", "u3"}

\* The ids the store gives to new rows, in order.
NewVaultIds == <<"v3", "v4">>

\* The uniqueness constraint of table vaults (user_pubkey among the active
\* rows): what a statement must leave true.
UniqueActiveOwner(vs) ==
    \A a \in DOMAIN vs, b \in DOMAIN vs :
        (a # b /\ vs[a].is_active /\ vs[b].is_active) => vs[a].user_pubkey # vs[b].user_pubkey

\* VaultRepository::get_vault_by_user: the active rows of an owner.
ActiveVaultsOf(vs, user_pubkey) ==
    {v \in DOMAIN vs : vs[v].user_pubkey = user_pubkey /\ vs[v].is_active}

\* VaultRepository::create_vault: the table with the new row, balances zero.
NewVaultId(vs) == NewVaultIds[Cardinality(DOMAIN vs) - Cardinality(VaultIds) + 1]

InsertVault(vs, user_pubkey) ==
    LET id == NewVaultId(vs) IN
    [v \in DOMAIN vs \cup {id} |-> IF v = id THEN VaultRow(user_pubkey, 0, 0, 0) ELSE vs[v]]

\* create_vault is called for an owner.
CallCreate(p) ==
    /\ task[p].pc = "idle"
    /\ p = "t2" => task["t1"].pc # "idle"
    /\ \E u \in Owners :
          task' = [task EXCEPT ![p] =
                     [IdleTask EXCEPT !.pc = "lookup_owner", !.op = "create_vault",
                                      !.user_pubkey = u]]
    /\ UNCHANGED <<vaults, transaction_records, audit_logs, pending_operations>>
    /\ UNCHANGED <<chain, services, expires_at>>

\* create_vault: the check that the owner has no vault. get_vault_by_user
\* returns every error of the store as NotFound, which the check takes for
\* "no vault".
LookupOwner(p) ==
    LET t == task[p]
        found == ActiveVaultsOf(vaults, t.user_pubkey) # {}
    IN
    /\ t.pc = "lookup_owner"
    /\ \/ /\ found
          /\ task' = [task EXCEPT ![p] =
                        [t EXCEPT !.pc = "done", !.ret = "VaultAlreadyExists",
                                  !.result = "duplicate"]]
       \/ /\ ~found
          /\ task' = [task EXCEPT ![p] = [t EXCEPT !.pc = "insert_vault"]]
       \/ task' = [task EXCEPT ![p] = [t EXCEPT !.pc = "insert_vault"]]
    /\ UNCHANGED <<vaults, transaction_records, audit_logs, pending_operations>>
    /\ UNCHANGED <<chain, services, expires_at>>

\* create_vault: the INSERT, rejected when it breaks the uniqueness
\* constraint; every error of the statement is returned as DatabaseError.
CreateVaultRow(p) ==
    LET t == task[p]
        vs == InsertVault(vaults, t.user_pubkey)
    IN
    /\ t.pc = "insert_vault"
    /\ Cardinality(DOMAIN vaults) - Cardinality(VaultIds) < Len(NewVaultIds)
    /\ \/ /\ task' = [task EXCEPT ![p] = Return(p, "DatabaseError")]
          /\ UNCHANGED vaults
       \/ IF UniqueActiveOwner(vs)
          THEN /\ vaults' = vs
               /\ task' = [task EXCEPT ![p] =
                             [t EXCEPT !.pc = "audit_created", !.vault_id = NewVaultId(vaults)]]
          ELSE /\ UNCHANGED vaults
               /\ task' = [task EXCEPT ![p] =
                             [t EXCEPT !.pc = "done", !.ret = "DatabaseError",
                                       !.result = "duplicate"]]
    /\ UNCHANGED <<transaction_records, audit_logs, pending_operations>>
    /\ UNCHANGED <<chain, services, expires_at>>

\* create_vault: the vault_created audit row, then the return.
AuditCreated(p) ==
    LET t == task[p] IN
    /\ t.pc = "audit_created"
    /\ \/ /\ task' = [task EXCEPT ![p] = Return(p, "DatabaseError")]
          /\ UNCHANGED audit_logs
       \/ /\ audit_logs' = audit_logs \cup
                {AuditEntry("vault_created", t.vault_id, None, None, None)}
          /\ task' = [task EXCEPT ![p] = Return(p, "Ok")]
    /\ UNCHANGED <<vaults, transaction_records, pending_operations>>
    /\ UNCHANGED <<chain, services, expires_at>>

\* VaultRepository::deactivate_vault on some row.
DeactivateVault ==
    /\ \E v \in DOMAIN vaults :
          /\ vaults[v].is_active
          /\ vaults' = [vaults EXCEPT ![v] = [@ EXCEPT !.is_active = FALSE]]
    /\ UNCHANGED <<transaction_records, audit_logs, pending_operations, task>>
    /\ UNCHANGED <<chain, services, expires_at>>

\* The vault manager serving concurrent create_vault calls.
NextCreate ==
    \/ \E p \in Procs : CallCreate(p) \/ LookupOwner(p) \/ CreateVaultRow(p) \/ AuditCreated(p)
    \/ DeactivateVault

SpecCreate == Init /\ [][NextCreate]_vars

(***************************************************************************)
(* One request on any ledger row with any amount                           *)
(***************************************************************************)
\* The rows a vault can hold: non-negative balances whose sum an i64 stores.
LedgerRows(user_pubkey) ==
    {VaultRow(user_pubkey, x[1] + x[2], x[1], x[2]) :
        x \in {y \in (0..MaxI64) \X (0..MaxI64) : y[1] + y[2] <= MaxI64}}

\* Every u64 amount.
AnyAmount == 0..MaxU64

\* The first vault holds any row, the second is empty or full; the on-chain
\* accounts hold the same balances.
InitOps ==
    /\ vaults \in [VaultIds -> LedgerRows("u1") \cup {VaultRow("u2", 0, 0, 0), InitVault("v2")}]
    /\ vaults["v1"].user_pubkey = "u1"
    /\ vaults["v2"].user_pubkey = "u2"
    /\ transaction_records = <<>>
    /\ audit_logs = {}
    /\ pending_operations = {}
    /\ task = [p \in Procs |-> IdleTask]
    /\ chain_vaults = [v \in VaultIds |->
                         ChainVault(vaults[v].total_balance, vaults[v].locked_balance,
                                    vaults[v].available_balance)]
    /\ chain_log = <<>>
    /\ InitServices

\* lock_collateral / unlock_collateral / transfer_collateral called with any
\* u64 amount.
CallAny(p) ==
    /\ task[p].pc = "idle"
    /\ \E op \in {"lock", "unlock", "transfer"}, v \in VaultIds, d \in VaultIds,
          a \in AnyAmount :
          /\ op # "transfer" => d = v
          /\ task' = Invoke(p, op, v, d, a, "opA")
    /\ UNCHANGED <<vaults, transaction_records, audit_logs, pending_operations>>
    /\ UNCHANGED <<chain, services, expires_at>>

\* A deposit or withdraw request arrives at the API with any u64 amount.
ApiCallAny(p) ==
    /\ task[p].pc = "idle"
    /\ \E op \in {"deposit", "withdraw"}, v \in VaultIds, a \in AnyAmount :
          task' = [task EXCEPT ![p] =
                     [IdleTask EXCEPT !.pc = "lookup_key", !.op = op, !.vault_id = v,
                                      !.destination_vault_id = v, !.amount = a]]
    /\ UNCHANGED <<vaults, transaction_records, audit_logs, pending_operations>>
    /\ UNCHANGED <<chain, services, expires_at>>

\* The backend serving a single request.
NextOps ==
    \/ CallAny("t1")
    \/ Steps("t1")
    \/ ApiCallAny("t1")
    \/ LookupKey("t1")
    \/ Begin("t1")

SpecOps == InitOps /\ [][NextOps]_vars

(***************************************************************************)
(* On-chain program: programs/collateral-vault/src/lib.rs                  *)
(***************************************************************************)
\* Most instructions the program executes in a run.
MaxInstructions == 2

Instructions == {"deposit", "withdraw", "lock_collateral", "unlock_collateral",
                 "transfer_collateral"}

\* u64::checked_add / checked_sub return None: the sum is above u64::MAX,
\* the difference below zero.
AddOverflows(x, y) == x + y > MaxU64
SubUnderflows(x, y) == x < y

\* An instruction that fails leaves every account as it was.
Rejected(accs, err) == [err |-> err, accounts |-> accs]
Executed(accs) == [err |-> None, accounts |-> accs]

\* Deposit as it would be if the amount was added to the total only.
DepositTotalOnly(accs, v, amount, token_ok) ==
    LET vault == accs[v] IN
    IF amount = 0 \/ ~vault.is_active \/ AddOverflows(vault.total_balance, amount) \/ ~token_ok
    THEN Rejected(accs, "Rejected")
    ELSE Executed([accs EXCEPT ![v] =
                     [@ EXCEPT !.total_balance = vault.total_balance + amount]])

\* deposit: total and available grow by the amount, then the token transfer.
Deposit(accs, v, amount, token_ok) ==
    LET vault == accs[v] IN
    IF amount = 0 THEN Rejected(accs, "InvalidAmount")
    ELSE IF ~vault.is_active THEN Rejected(accs, "VaultInactive")
    ELSE IF AddOverflows(vault.total_balance, amount) THEN Rejected(accs, "Overflow")
    ELSE IF AddOverflows(vault.available_balance, amount) THEN Rejected(accs, "Overflow")
    ELSE IF ~token_ok THEN Rejected(accs, "TokenTransferFailed")
    ELSE Executed([accs EXCEPT ![v] =
                     [@ EXCEPT !.total_balance = vault.total_balance + amount,
                               !.available_balance = vault.available_balance + amount]])

\* withdraw: the amount must be available; total and available shrink by it.
Withdraw(accs, v, amount, token_ok) ==
    LET vault == accs[v] IN
    IF amount = 0 THEN Rejected(accs, "InvalidAmount")
    ELSE IF ~vault.is_active THEN Rejected(accs, "VaultInactive")
    ELSE IF ~(vault.available_balance >= amount)
         THEN Rejected(accs, "InsufficientAvailableBalance")
    ELSE IF SubUnderflows(vault.total_balance, amount) THEN Rejected(accs, "Underflow")
    ELSE IF SubUnderflows(vault.available_balance, amount) THEN Rejected(accs, "Underflow")
    ELSE IF ~token_ok THEN Rejected(accs, "TokenTransferFailed")
    ELSE Executed([accs EXCEPT ![v] =
                     [@ EXCEPT !.total_balance = vault.total_balance - amount,
                               !.available_balance = vault.available_balance - amount]])

\* lock_collateral: the amount moves from available to locked.
LockCollateral(accs, v, amount, authorized) ==
    LET vault == accs[v] IN
    IF amount = 0 THEN Rejected(accs, "InvalidAmount")
    ELSE IF ~vault.is_active THEN Rejected(accs, "VaultInactive")
    ELSE IF ~authorized THEN Rejected(accs, "UnauthorizedCaller")
    ELSE IF ~(vault.available_balance >= amount)
         THEN Rejected(accs, "InsufficientAvailableBalance")
    ELSE IF SubUnderflows(vault.available_balance, amount) THEN Rejected(accs, "Underflow")
    ELSE IF AddOverflows(vault.locked_balance, amount) THEN Rejected(accs, "Overflow")
    ELSE Executed([accs EXCEPT ![v] =
                     [@ EXCEPT !.available_balance = vault.available_balance - amount,
                               !.locked_balance = vault.locked_balance + amount]])

\* unlock_collateral: the amount moves from locked to available.
UnlockCollateral(accs, v, amount, authorized) ==
    LET vault == accs[v] IN
    IF amount = 0 THEN Rejected(accs, "InvalidAmount")
    ELSE IF ~vault.is_active THEN Rejected(accs, "VaultInactive")
    ELSE IF ~authorized THEN Rejected(accs, "UnauthorizedCaller")
    ELSE IF ~(vault.locked_balance >= amount)
         THEN Rejected(accs, "InsufficientLockedBalance")
    ELSE IF SubUnderflows(vault.locked_balance, amount) THEN Rejected(accs, "Underflow")
    ELSE IF AddOverflows(vault.available_balance, amount) THEN Rejected(accs, "Overflow")
    ELSE Executed([accs EXCEPT ![v] =
                     [@ EXCEPT !.locked_balance = vault.locked_balance - amount,
                               !.available_balance = vault.available_balance + amount]])

\* transfer_collateral: locked and total of the source shrink, total and
\* available of the destination grow. The program works on one copy of each
\* account it is given and writes them back in order, the destination last.
TransferCollateral(accs, v, d, amount, authorized, token_ok) ==
    LET source_vault == accs[v]
        destination_vault == accs[d]
    IN
    IF amount = 0 THEN Rejected(accs, "InvalidAmount")
    ELSE IF ~source_vault.is_active \/ ~destination_vault.is_active
         THEN Rejected(accs, "VaultInactive")
    ELSE IF ~authorized THEN Rejected(accs, "UnauthorizedCaller")
    ELSE IF ~(source_vault.locked_balance >= amount)
         THEN Rejected(accs, "InsufficientLockedBalance")
    ELSE IF SubUnderflows(source_vault.locked_balance, amount)
         THEN Rejected(accs, "Underflow")
    ELSE IF SubUnderflows(source_vault.total_balance, amount)
         THEN Rejected(accs, "Underflow")
    ELSE IF AddOverflows(destination_vault.total_balance, amount)
         THEN Rejected(accs, "Overflow")
    ELSE IF AddOverflows(destination_vault.available_balance, amount)
         THEN Rejected(accs, "Overflow")
    ELSE IF ~token_ok THEN Rejected(accs, "TokenTransferFailed")
    ELSE LET source_after ==
                 [source_vault EXCEPT !.locked_balance = source_vault.locked_balance - amount,
                                      !.total_balance = source_vault.total_balance - amount]
             destination_after ==
                 [destination_vault EXCEPT
                      !.total_balance = destination_vault.total_balance + amount,
                      !.available_balance = destination_vault.available_balance + amount]
         IN
         Executed([[accs EXCEPT ![v] = source_after] EXCEPT ![d] = destination_after])

\* initialize_vault: the account is created (it must not exist) with zero
\* balances, active.
InitializeVault(accs, v) ==
    IF accs[v].is_active THEN Rejected(accs, "AccountAlreadyInUse")
    ELSE Executed([accs EXCEPT ![v] = ChainVault(0, 0, 0)])

\* The program executing one instruction.
Execute(accs, ix, v, d, amount, authorized, token_ok) ==
    CASE ix = "initialize_vault" -> InitializeVault(accs, v)
      [] ix = "deposit" -> Deposit(accs, v, amount, token_ok)
      [] ix = "withdraw" -> Withdraw(accs, v, amount, token_ok)
      [] ix = "lock_collateral" -> LockCollateral(accs, v, amount, authorized)
      [] ix = "unlock_collateral" -> UnlockCollateral(accs, v, amount, authorized)
      [] OTHER -> TransferCollateral(accs, v, d, amount, authorized, token_ok)

\* A transaction with one instruction on the first vault (a transfer goes
\* to the second) is processed, while the backend serves no request; the
\* instructions of a run carry the same amount.
ChainInstruction ==
    /\ Len(chain_log) < MaxInstructions
    /\ \A p \in Procs : task[p].pc = "idle"
    /\ \E ix \in Instructions, amount \in AnyAmount, authorized \in BOOLEAN,
          token_ok \in BOOLEAN :
          LET r == Execute(chain_vaults, ix, "v1", "v2", amount, authorized, token_ok) IN
          /\ chain_log # <<>> => amount = chain_log[1].amount
          /\ chain_vaults' = r.accounts
          /\ chain_log' = Append(chain_log,
                [ix |-> ix, amount |-> amount, err |-> r.err,
                 before |-> RowBalances(chain_vaults["v1"]),
                 after |-> RowBalances(r.accounts["v1"])])
    /\ UNCHANGED <<vaults, transaction_records, audit_logs, pending_operations, task>>
    /\ UNCHANGED <<services, expires_at>>

\* An account that does not exist yet: no instruction but initialize_vault
\* accepts it.
NoAccount == [total_balance |-> 0, locked_balance |-> 0, available_balance |-> 0,
              is_active |-> FALSE]

\* The program deployed, no vault account created.
InitChain ==
    /\ vaults = [v \in VaultIds |-> InitVault(v)]
    /\ transaction_records = <<>>
    /\ audit_logs = {}
    /\ pending_operations = {}
    /\ task = [p \in Procs |-> IdleTask]
    /\ chain_vaults = [v \in VaultIds |-> NoAccount]
    /\ chain_log = <<>>
    /\ InitServices

\* A transaction with one instruction on any accounts is processed and
\* succeeds: its signers are the authorities the program asks for and the
\* token transfer goes through (a transaction that fails leaves every
\* account as it was). A transfer given the same account as source and
\* destination either fails so, in a build that refuses duplicate mutable
\* accounts, or is executed.
ChainStep ==
    /\ \E ix \in Instructions \cup {"initialize_vault"}, v \in VaultIds, d \in VaultIds,
          amount \in AnyAmount :
          LET r == Execute(chain_vaults, ix, v, d, amount, TRUE, TRUE) IN
          /\ ix # "transfer_collateral" => d = v
          /\ r.err = None
          /\ chain_vaults' = r.accounts
    /\ UNCHANGED <<vaults, transaction_records, audit_logs, pending_operations, task>>
    /\ UNCHANGED <<chain_log, services, expires_at>>

\* The program executing any sequence of instructions.
NextChain == ChainStep

SpecChain == InitChain /\ [][NextChain]_vars

\* A request on the first vault (a transfer goes to the second) with any
\* u64 amount arrives, while the program has executed nothing; a second
\* request, for the same amount, is made once a first one has returned
\* success.
CallInTurn(p) ==
    /\ task[p].pc = "idle"
    /\ chain_log = <<>>
    /\ p = "t2" => task["t1"].ret = "Ok"
    /\ \E op \in {"lock", "unlock", "transfer"}, a \in AnyAmount :
          /\ p = "t2" => a = task["t1"].amount
          /\ task' = Invoke(p, op, "v1", IF op = "transfer" THEN "v2" ELSE "v1", a,
                         IF p = "t1" THEN "opA" ELSE "opB")
    /\ UNCHANGED <<vaults, transaction_records, audit_logs, pending_operations>>
    /\ UNCHANGED <<chain, services, expires_at>>

\* The backend serving requests one after the other, and the program
\* executing instructions, each from accounts and rows with equal balances.
NextSequence ==
    \/ \E p \in Procs : CallInTurn(p) \/ Steps(p)
    \/ ChainInstruction

SpecSequence == InitOps /\ [][NextSequence]_vars

(***************************************************************************)
(* API handlers of lock, unlock and transfer: api.rs                       *)
(***************************************************************************)
\* The owners of the two vaults.
Users == {"u1", "u2"}

\* A lock, unlock or transfer request arrives at the API for an owner, with
\* any u64 amount.
ApiRequest(p) ==
    /\ task[p].pc = "idle"
    /\ \E op \in {"lock", "unlock", "transfer"}, u \in Users, d \in Users, a \in AnyAmount :
          /\ op # "transfer" => d = u
          /\ task' = [task EXCEPT ![p] =
                [IdleTask EXCEPT !.pc = "api_get_vault", !.op = op, !.user_pubkey = u,
                                 !.amount = a,
                                 !.request = [user_pubkey |-> u, destination_user_pubkey |-> d,
                                              amount |-> a, vault |-> VaultRow(u, 0, 0, 0),
                                              vault_id |-> None,
                                              rejected |-> FALSE]]]
    /\ UNCHANGED <<vaults, transaction_records, audit_logs, pending_operations>>
    /\ UNCHANGED <<chain, services, expires_at>>

\* The pre-check of the handlers, on the row of the (source) vault: lock and
\* transfer compare the available balance, unlock the locked balance.
ApiInsufficient(op, vault, amount) ==
    IF op = "unlock" THEN vault.locked_balance < AsI64(amount)
                     ELSE vault.available_balance < AsI64(amount)

\* The handler after its pre-check: the error, or the coordinator call with a
\* new operation id.
ApiProceed(p, req, d) ==
    IF ApiInsufficient(task[p].op, req.vault, req.amount)
    THEN [task EXCEPT ![p] =
            [@ EXCEPT !.pc = "done", !.request = [req EXCEPT !.rejected = TRUE],
                      !.ret = IF task[p].op = "unlock" THEN "InsufficientLockedBalance"
                                                       ELSE "InsufficientBalance"]]
    ELSE [q \in Procs |->
            IF q = p
            THEN [Invoke(p, task[p].op, req.vault_id, d, req.amount, "opA")[p]
                      EXCEPT !.request = req, !.user_pubkey = req.user_pubkey]
            ELSE task[q]]

\* get_vault_by_user_pubkey of the (source) owner: NotFound when the owner
\* has no active vault or the store fails; lock and unlock pre-check here.
ApiGetVault(p) ==
    LET t == task[p]
        found == ActiveVaultsOf(vaults, t.user_pubkey)
    IN
    /\ t.pc = "api_get_vault"
    /\ \/ task' = [task EXCEPT ![p] = Return(p, "NotFound")]
       \/ /\ found # {}
          /\ LET v == CHOOSE x \in found : TRUE
                 req == [t.request EXCEPT !.vault = vaults[v], !.vault_id = v]
             IN
             task' = IF t.op = "transfer"
                     THEN [task EXCEPT ![p] = [t EXCEPT !.pc = "api_get_destination",
                                                        !.request = req]]
                     ELSE ApiProceed(p, req, v)
    /\ UNCHANGED <<vaults, transaction_records, audit_logs, pending_operations>>
    /\ UNCHANGED <<chain, services, expires_at>>

\* transfer handler: get_vault_by_user_pubkey of the destination owner, then
\* the pre-check on the source row.
ApiGetDestination(p) ==
    LET t == task[p]
        found == ActiveVaultsOf(vaults, t.request.destination_user_pubkey)
    IN
    /\ t.pc = "api_get_destination"
    /\ \/ task' = [task EXCEPT ![p] = Return(p, "NotFound")]
       \/ /\ found # {}
          /\ task' = ApiProceed(p, t.request, CHOOSE x \in found : TRUE)
    /\ UNCHANGED <<vaults, transaction_records, audit_logs, pending_operations>>
    /\ UNCHANGED <<chain, services, expires_at>>

\* The API serving a single lock, unlock or transfer request.
NextApi ==
    \/ ApiRequest("t1")
    \/ ApiGetVault("t1")
    \/ ApiGetDestination("t1")
    \/ Steps("t1")

SpecApi == InitOps /\ [][NextApi]_vars

(***************************************************************************)
(* Balance tracker: balance_tracker.rs                                     *)
(***************************************************************************)
\* `balance as u64`: reinterpretation of an i64 as unsigned.
AsU64(x) == IF x < 0 THEN x + Pow2(Bits) ELSE x

\* Option<DateTime>::None of a cache entry's last_snapshot.
NoTime == 0 - 1

\* BalanceCache as it would be if the total was cached for all three balances.
BalanceCacheOfTotal(row, at) ==
    [total_balance |-> AsU64(row.total_balance),
     locked_balance |-> AsU64(row.total_balance),
     available_balance |-> AsU64(row.total_balance),
     last_updated |-> at, last_snapshot |-> NoTime]

\* The cache entry get_balance installs for a row it fetched.
BalanceCache(row, at) ==
    [total_balance |-> AsU64(row.total_balance),
     locked_balance |-> AsU64(row.locked_balance),
     available_balance |-> AsU64(row.available_balance),
     last_updated |-> at, last_snapshot |-> NoTime]

\* HashMap::insert on the cache.
Install(c, v, entry) ==
    [u \in DOMAIN c \cup {v} |-> IF u = v THEN entry ELSE c[u]]

\* get_balance returns a cached entry that is less than 5 seconds old.
Fresh(entry, at) == at - entry.last_updated < CacheTtl

\* reconcile_balances: the discrepancies between the row it read and the
\* balances get_balance returned (the invariant test is an i64 addition).
Discrepancies(vault, cached) ==
    {f \in {"total_balance", "locked_balance", "available_balance"} :
        vault[f] # AsI64(cached[f])}
    \cup (IF vault.total_balance # Wrap(vault.locked_balance + vault.available_balance)
          THEN {"balance_invariant"} ELSE {})

\* The balances the tracker works on after bulk updates of the first vault.
TrackerUpdates == {Balances(0, 0, 0), Balances(0 - 1, 0, 0 - 1)}

\* get_balance, create_snapshot or reconcile_balances is called on a vault.
CallTracker(p) ==
    /\ task[p].pc \in {"idle", "done"}
    /\ \E op \in {"get_balance", "create_snapshot", "reconcile_balances"}, v \in VaultIds :
          task' = [task EXCEPT ![p] =
                     [IdleTask EXCEPT !.pc = IF op = "reconcile_balances"
                                             THEN "reconcile_read" ELSE "cache_lookup",
                                      !.op = op, !.vault_id = v, !.destination_vault_id = v,
                                      !.after = {q \in Procs \ {p} : task[q].pc = "done"}]]
    /\ UNCHANGED <<vaults, transaction_records, audit_logs, pending_operations>>
    /\ UNCHANGED <<chain, services, expires_at>>

\* reconcile_balances, first statement: get_vault_by_id.
ReconcileRead(p) ==
    LET t == task[p] IN
    /\ t.pc = "reconcile_read"
    /\ \/ task' = [task EXCEPT ![p] = Return(p, "NotFound")]
       \/ task' = [task EXCEPT ![p] = [t EXCEPT !.pc = "cache_lookup",
                                                !.vault = vaults[t.vault_id]]]
    /\ UNCHANGED <<vaults, transaction_records, audit_logs, pending_operations>>
    /\ UNCHANGED <<chain, services, expires_at>>

\* What follows get_balance in the operation that called it.
AfterGetBalance(t, balances) ==
    CASE t.op = "get_balance" -> [t EXCEPT !.pc = "done", !.ret = "Ok", !.returned = balances]
      [] t.op = "create_snapshot" -> [t EXCEPT !.pc = "insert_snapshot", !.returned = balances]
      [] OTHER -> [t EXCEPT !.pc = "compare", !.returned = balances]

\* get_balance, under the read lock: a fresh entry is returned as it is.
CacheLookup(p) ==
    LET t == task[p]
        v == t.vault_id
    IN
    /\ t.pc = "cache_lookup"
    /\ task' = [task EXCEPT ![p] =
          IF v \in DOMAIN cache /\ Fresh(cache[v], now)
          THEN AfterGetBalance(t, Balances(cache[v].total_balance, cache[v].locked_balance,
                                           cache[v].available_balance))
          ELSE [t EXCEPT !.pc = "fetch_vault"]]
    /\ UNCHANGED <<vaults, transaction_records, audit_logs, pending_operations>>
    /\ UNCHANGED <<chain, services, expires_at>>

\* get_balance: get_vault_by_id.
FetchVault(p) ==
    LET t == task[p] IN
    /\ t.pc = "fetch_vault"
    /\ \/ task' = [task EXCEPT ![p] = Return(p, "NotFound")]
       \/ task' = [task EXCEPT ![p] = [t EXCEPT !.pc = "install",
                                                !.current = vaults[t.vault_id]]]
    /\ UNCHANGED <<vaults, transaction_records, audit_logs, pending_operations>>
    /\ UNCHANGED <<chain, services, expires_at>>

\* get_balance, under the write lock: the entry of the fetched row is
\* installed, and the balances of the row are returned.
InstallCache(p) ==
    LET t == task[p]
        entry == BalanceCache(t.current, now)
    IN
    /\ t.pc = "install"
    /\ cache' = Install(cache, t.vault_id, entry)
    /\ task' = [task EXCEPT ![p] =
          AfterGetBalance(t, Balances(entry.total_balance, entry.locked_balance,
                                      entry.available_balance))]
    /\ UNCHANGED <<vaults, transaction_records, audit_logs, pending_operations>>
    /\ UNCHANGED <<chain, gates, expires_at, balance_snapshots, is_healthy, critical_detected, now>>

\* create_snapshot: the INSERT of the snapshot row.
InsertSnapshot(p) ==
    LET t == task[p]
        row == [vault_id |-> t.vault_id,
                total_balance |-> AsI64(t.returned.total_balance),
                locked_balance |-> AsI64(t.returned.locked_balance),
                available_balance |-> AsI64(t.returned.available_balance)]
    IN
    /\ t.pc = "insert_snapshot"
    /\ \/ /\ task' = [task EXCEPT ![p] = Return(p, "DatabaseError")]
          /\ UNCHANGED balance_snapshots
       \/ /\ balance_snapshots' = balance_snapshots \cup {row}
          /\ task' = [task EXCEPT ![p] = [t EXCEPT !.pc = "mark_snapshot"]]
    /\ UNCHANGED <<vaults, transaction_records, audit_logs, pending_operations>>
    /\ UNCHANGED <<chain, gates, expires_at, cache, is_healthy, critical_detected, now>>

\* create_snapshot, under the write lock: the entry of the vault, if there
\* is one, gets the time of the snapshot.
MarkSnapshot(p) ==
    LET t == task[p]
        v == t.vault_id
    IN
    /\ t.pc = "mark_snapshot"
    /\ cache' = IF v \in DOMAIN cache
                THEN [cache EXCEPT ![v] = [@ EXCEPT !.last_snapshot = now]]
                ELSE cache
    /\ task' = [task EXCEPT ![p] = Return(p, "Ok")]
    /\ UNCHANGED <<vaults, transaction_records, audit_logs, pending_operations>>
    /\ UNCHANGED <<chain, gates, expires_at, balance_snapshots, is_healthy, critical_detected, now>>

\* reconcile_balances: the comparison and the report. The invariant test
\* aborts the task on overflow in a build with overflow checks.
Compare(p) ==
    LET t == task[p]
        discrepancies == Discrepancies(t.vault, t.returned)
    IN
    /\ t.pc = "compare"
    /\ \/ task' = [task EXCEPT ![p] =
              [t EXCEPT !.pc = "done", !.ret = "Ok",
                        !.returned = [is_consistent |-> discrepancies = {},
                                      discrepancies |-> discrepancies,
                                      database_total |-> t.vault.total_balance,
                                      cached_total |-> AsI64(t.returned.total_balance)]]]
       \/ /\ Overflows(t.vault.locked_balance + t.vault.available_balance)
          /\ task' = [task EXCEPT ![p] = Return(p, "Panic")]
    /\ UNCHANGED <<vaults, transaction_records, audit_logs, pending_operations>>
    /\ UNCHANGED <<chain, services, expires_at>>

\* Time passes.
Tick ==
    /\ now < MaxTime
    /\ now' = now + 1
    /\ UNCHANGED <<vaults, transaction_records, audit_logs, pending_operations, task>>
    /\ UNCHANGED <<chain, gates, expires_at, cache, balance_snapshots, is_healthy, critical_detected>>

\* One step of a balance tracker call.
TrackerSteps(p) ==
    \/ ReconcileRead(p)
    \/ CacheLookup(p)
    \/ FetchVault(p)
    \/ InstallCache(p)
    \/ InsertSnapshot(p)
    \/ MarkSnapshot(p)
    \/ Compare(p)

\* The balance tracker serving one caller after the other, while one
\* update_balances call is made on the first vault and time passes.
NextTracker ==
    \/ CallUpdateIn("t1", TrackerUpdates)
    \/ ReadCurrent("t1")
    \/ UpdateVaultBalances("t1")
    \/ Audit("t1")
    \/ CallTracker("t2")
    \/ TrackerSteps("t2")
    \/ Tick

SpecTracker == Init /\ [][NextTracker]_vars

(***************************************************************************)
(* Monitor loops: vault_monitor.rs                                         *)
(***************************************************************************)
\* MonitorConfig::default().max_pending_transactions.
max_pending_transactions == 100

ActiveVaults(vs) == {v \in DOMAIN vs : vs[v].is_active}

\* check_critical_issues, first query: the rows with a negative balance.
NegativeBalances(vs) ==
    {v \in DOMAIN vs : \/ vs[v].total_balance < 0
                       \/ vs[v].locked_balance < 0
                       \/ vs[v].available_balance < 0}

\* check_critical_issues, second query: the rows with total # locked +
\* available (the sum is a bigint addition of the store, which is exact and
\* fails the query when it is out of range).
InvariantViolations(vs) ==
    {v \in DOMAIN vs : vs[v].total_balance # vs[v].locked_balance + vs[v].available_balance}

SumOutOfRange(vs) ==
    \E v \in DOMAIN vs : Overflows(vs[v].locked_balance + vs[v].available_balance)

\* set_health_status: the status is overwritten.
SetHealthStatus(status, healthy) == healthy

\* One round of the health check loop: run_health_check, then
\* set_health_status with its result, false when it returned an error.
HealthCheck ==
    /\ \E db_healthy \in BOOLEAN, solana_healthy \in BOOLEAN :
          LET pending_count ==
                  Cardinality({i \in 1..Len(transaction_records) :
                                  transaction_records[i].status = "pending"})
              pending_healthy == pending_count < max_pending_transactions
              critical_issues ==
                  NegativeBalances(vaults) # {} \/ InvariantViolations(vaults) # {}
              overall_healthy ==
                  db_healthy /\ solana_healthy /\ pending_healthy /\ ~critical_issues
          IN
          \/ /\ is_healthy' = SetHealthStatus(is_healthy, FALSE)
             /\ UNCHANGED critical_detected
          \/ /\ NegativeBalances(vaults) # {} \/ ~SumOutOfRange(vaults)
             /\ is_healthy' = SetHealthStatus(is_healthy, overall_healthy)
             /\ critical_detected' = (critical_detected \/ critical_issues)
    /\ UNCHANGED <<vaults, transaction_records, audit_logs, pending_operations, task>>
    /\ UNCHANGED <<chain, gates, expires_at, cache, balance_snapshots, now>>

\* The cache after get_balance was called for some vaults: the entries that
\* are not fresh are replaced.
Refreshed(c, vs, fetched, at) ==
    LET stale == {v \in fetched : ~(v \in DOMAIN c /\ Fresh(c[v], at))} IN
    [u \in DOMAIN c \cup stale |-> IF u \in stale THEN BalanceCache(vs[u], at) ELSE c[u]]

\* One round of the reconciliation loop: run_reconciliation reconciles the
\* active vaults (those whose reconciliation the store answers) and logs
\* the critical discrepancies.
RunReconciliation ==
    /\ \E reconciled \in SUBSET ActiveVaults(vaults) :
          LET refreshed == Refreshed(cache, vaults, reconciled, now)
              critical == \E v \in reconciled :
                             "balance_invariant" \in Discrepancies(vaults[v], refreshed[v])
          IN
          /\ cache' = refreshed
          /\ critical_detected' = (critical_detected \/ critical)
    /\ UNCHANGED <<vaults, transaction_records, audit_logs, pending_operations, task>>
    /\ UNCHANGED <<chain, gates, expires_at, balance_snapshots, is_healthy, now>>

\* One round of the snapshot loop: create_balance_snapshots calls
\* create_snapshot for the active vaults; a call can fail at its fetch or at
\* its INSERT.
CreateBalanceSnapshots ==
    /\ \E fetched \in SUBSET ActiveVaults(vaults) :
       \E inserted \in SUBSET fetched :
          LET refreshed == Refreshed(cache, vaults, fetched, now) IN
          /\ cache' = [u \in DOMAIN refreshed |->
                          IF u \in inserted
                          THEN [refreshed[u] EXCEPT !.last_snapshot = now]
                          ELSE refreshed[u]]
          /\ balance_snapshots' = balance_snapshots \cup
                {[vault_id |-> u,
                  total_balance |-> AsI64(refreshed[u].total_balance),
                  locked_balance |-> AsI64(refreshed[u].locked_balance),
                  available_balance |-> AsI64(refreshed[u].available_balance)] :
                    u \in inserted}
    /\ UNCHANGED <<vaults, transaction_records, audit_logs, pending_operations, task>>
    /\ UNCHANGED <<chain, gates, expires_at, is_healthy, critical_detected, now>>

\* The monitor's health and reconciliation loops running while concurrent
\* update_balances calls are made on the first vault and time passes.
NextHealth ==
    \/ \E p \in Procs :
          \/ CallUpdateIn(p, TrackerUpdates)
          \/ ReadCurrent(p)
          \/ UpdateVaultBalances(p)
          \/ Audit(p)
    \/ HealthCheck
    \/ RunReconciliation
    \/ Tick

SpecHealth == Init /\ [][NextHealth]_vars

\* A lock of 1 on the first vault, or a transfer of 1 from the first vault
\* to the second, is requested under the operation id opA.
CallOne(p) ==
    /\ task[p].pc = "idle"
    /\ p = "t2" => task["t1"].pc # "idle"
    /\ \E op \in {"lock", "transfer"} :
          task' = Invoke(p, op, "v1", IF op = "transfer" THEN "v2" ELSE "v1", 1, "opA")
    /\ UNCHANGED <<vaults, transaction_records, audit_logs, pending_operations>>
    /\ UNCHANGED <<chain, services, expires_at>>

\* The service process dies and is started again: the running calls are
\* gone, and so is what the process held in memory (the pending map, the
\* cache, the health flag); the store keeps its tables.
Crash ==
    /\ \E p \in Procs : InFlight(p)
    /\ \A p \in Procs : task[p].pc # "crashed"
    /\ task' = [p \in Procs |->
                  IF InFlight(p) THEN [task[p] EXCEPT !.pc = "crashed"] ELSE task[p]]
    /\ pending_operations' = {}
    /\ expires_at' = [o \in OpIds |-> 0]
    /\ cache' = <<>>
    /\ is_healthy' = TRUE
    /\ UNCHANGED <<vaults, transaction_records, audit_logs>>
    /\ UNCHANGED <<chain, gates, balance_snapshots, critical_detected, now>>

\* One round of one of the monitor's four loops.
MonitorRound ==
    \/ CleanupStale
    \/ HealthCheck
    \/ RunReconciliation
    \/ CreateBalanceSnapshots

\* The coordinator serving one request, the service crashing at any point
\* of it, and the monitor's loops running before and after.
NextRecovery ==
    \/ CallOne("t1")
    \/ Steps("t1")
    \/ Crash
    \/ MonitorRound

\* Every loop of the monitor runs again and again (tokio interval), and a
\* call that can take a step takes it.
SpecRecovery ==
    /\ Init /\ [][NextRecovery]_vars
    /\ WF_vars(Steps("t1"))
    /\ WF_vars(CleanupStale)
    /\ WF_vars(HealthCheck)
    /\ WF_vars(RunReconciliation)
    /\ WF_vars(CreateBalanceSnapshots)

\* The coordinator serving concurrent requests under one operation id while
\* time passes.
NextExpiry ==
    \/ \E p \in Procs : CallOne(p) \/ Steps(p)
    \/ Tick

SpecExpiry == Init /\ [][NextExpiry]_vars

\* The coordinator serving one request while vaults are deactivated.
NextService ==
    \/ CallOne("t1")
    \/ Steps("t1")
    \/ DeactivateVault

SpecService == Init /\ [][NextService]_vars

(***************************************************************************)
(* Coordinator and program together: cpi_manager.rs, lib.rs                *)
(***************************************************************************)
\* The instruction of the transaction built for a coordinator operation.
InstructionOf(op) ==
    CASE op = "lock" -> "lock_collateral"
      [] op = "unlock" -> "unlock_collateral"
      [] OTHER -> "transfer_collateral"

\* submit_and_confirm, first half, with the program behind it: the
\* transaction signed by the vault authority is processed and the submitter
\* returns its signature when the instruction executed; it returns
\* TransactionFailed when the program rejected it or it was never processed.
SubmitOnChain(p) ==
    LET t == task[p]
        r == Execute(chain_vaults, InstructionOf(t.op), t.vault_id, t.destination_vault_id,
                     t.amount, TRUE, TRUE)
    IN
    /\ t.pc = "submit"
    /\ \/ /\ chain_vaults' = r.accounts
          /\ task' = [task EXCEPT ![p] =
                IF r.err = None
                THEN [t EXCEPT !.pc = "confirm"]
                ELSE [t EXCEPT !.pc = "remove_pending", !.result = "TransactionFailed"]]
       \/ /\ UNCHANGED chain_vaults
          /\ task' = [task EXCEPT ![p] =
                        [t EXCEPT !.pc = "remove_pending", !.result = "TransactionFailed"]]
    /\ UNCHANGED <<vaults, transaction_records, audit_logs, pending_operations>>
    /\ UNCHANGED <<chain_log, services, expires_at>>

\* A lock, an unlock or a transfer of 1 is requested on any vaults, each
\* task under its own operation id.
CallIssued(p) ==
    /\ task[p].pc = "idle"
    /\ p = "t2" => task["t1"].pc # "idle"
    /\ \E op \in {"lock", "unlock", "transfer"}, v \in VaultIds, d \in VaultIds :
          /\ op # "transfer" => d = v
          /\ task' = Invoke(p, op, v, d, 1, IF p = "t1" THEN "opA" ELSE "opB")
    /\ UNCHANGED <<vaults, transaction_records, audit_logs, pending_operations>>
    /\ UNCHANGED <<chain, services, expires_at>>

\* One step of a call whose transaction goes to the program.
StepsOnChain(p) ==
    \/ GetVault(p)
    \/ GetDestination(p)
    \/ CheckPending(p)
    \/ AddPending(p)
    \/ CreateTx(p)
    \/ SubmitOnChain(p)
    \/ Confirm(p)
    \/ RemovePending(p)
    \/ MarkDestinationFailed(p)
    \/ ReadCurrent(p)
    \/ UpdateVaultBalances(p)
    \/ Audit(p)

\* The coordinator serving concurrent requests, every instruction the
\* program executes being one the coordinator submitted; rows and accounts
\* start with the same balances.
NextRefine == \E p \in Procs : CallIssued(p) \/ StepsOnChain(p)

SpecRefine == Init /\ [][NextRefine]_vars

(***************************************************************************)
(* Transaction submitter: transaction_builder.rs                           *)
(***************************************************************************)
\* What one send_transaction attempt can come to: the transaction is sent
\* and confirmed; sent and not confirmed; an RPC call fails on the network;
\* or the node refuses the transaction for a reason that will not change
\* (signature verification, insufficient balance, PDA mismatch, an error
\* returned by the program).
SendOutcomes == {"confirmed", "not_confirmed", "transient", "deterministic"}

\* RetriesExhausted as it would be if the loop compared with `>`.
ExhaustedOneLater(retry_count, max_retries) == retry_count > max_retries

\* The test that ends the retry loop.
RetriesExhausted(retry_count, max_retries) == retry_count >= max_retries

\* submit_transaction is called on a submitter configured with max_retries.
CallSubmit(p) ==
    /\ task[p].pc = "idle"
    /\ \E m \in 0..MaxRetries :
          task' = [task EXCEPT ![p] =
                     [IdleTask EXCEPT !.pc = "send_transaction", !.op = "submit_transaction",
                                      !.max_retries = m, !.retry_count = 0]]
    /\ UNCHANGED <<vaults, transaction_records, audit_logs, pending_operations>>
    /\ UNCHANGED <<chain, services, expires_at>>

\* One turn of the loop: send_transaction (send, then confirm) and the
\* match on its result, up to the return or the sleep before the next turn.
SendTransaction(p) ==
    LET t == task[p] IN
    /\ t.pc = "send_transaction"
    /\ \E o \in SendOutcomes :
          LET made == [t EXCEPT !.outcomes = Append(@, o)] IN
          task' = [task EXCEPT ![p] =
              IF o = "confirmed"
              THEN [made EXCEPT !.pc = "done", !.ret = "Ok"]
              ELSE IF RetriesExhausted(t.retry_count, t.max_retries)
                   THEN [made EXCEPT !.pc = "done", !.ret = "TransactionFailed"]
                   ELSE [made EXCEPT !.pc = "sleep", !.retry_count = t.retry_count + 1]]
    /\ UNCHANGED <<vaults, transaction_records, audit_logs, pending_operations>>
    /\ UNCHANGED <<chain, services, expires_at>>

\* tokio::time::sleep(retry_delay_ms) ends: the loop starts its next turn.
Sleep(p) ==
    /\ task[p].pc = "sleep"
    /\ task' = [task EXCEPT ![p] = [task[p] EXCEPT !.pc = "send_transaction"]]
    /\ UNCHANGED <<vaults, transaction_records, audit_logs, pending_operations>>
    /\ UNCHANGED <<chain, services, expires_at>>

SubmitSteps(p) == SendTransaction(p) \/ Sleep(p)

\* A call of submit_transaction; the submitter holds nothing that a call
\* writes, so calls do not affect one another.
NextSubmit == CallSubmit("t1") \/ SubmitSteps("t1")

SpecSubmit == Init /\ [][NextSubmit]_vars

\* The same, every RPC call returning (the client's timeout) and every
\* sleep ending.
SpecSubmitFair == SpecSubmit /\ WF_vars(SubmitSteps("t1"))

(***************************************************************************)
(* Transaction builder: transaction_builder.rs                             *)
(***************************************************************************)
\* DropPermit as it would be if a permit was forgotten instead of dropped.
ForgetPermit(n) == n

\* The `_permit` binding goes out of scope when build_*_tx returns, with
\* Ok or through `?`: the permit goes back to the semaphore.
DropPermit(n) == n + 1

\* The build tasks that hold a permit.
InProgress == {b \in Builders : builds[b] = "build"}

\* A build_*_tx function is called (again, once an earlier call of the
\* task has returned).
CallBuild(b) ==
    /\ builds[b] \in {"idle", "Ok", "SolanaClientError"}
    /\ builds' = [builds EXCEPT ![b] = "acquire"]
    /\ UNCHANGED <<vaults, transaction_records, audit_logs, pending_operations, task>>
    /\ UNCHANGED <<chain, expires_at, cache, balance_snapshots, is_healthy,
                   critical_detected, now, permits, rate_limit_buckets>>

\* rate_limiter.acquire().await returns: a permit was available.
Acquire(b) ==
    /\ builds[b] = "acquire"
    /\ permits > 0
    /\ permits' = permits - 1
    /\ builds' = [builds EXCEPT ![b] = "build"]
    /\ UNCHANGED <<vaults, transaction_records, audit_logs, pending_operations, task>>
    /\ UNCHANGED <<chain, expires_at, cache, balance_snapshots, is_healthy,
                   critical_detected, now, rate_limit_buckets>>

\* The rest of the function: get_latest_blockhash, which may fail and
\* return its error with `?`, the instruction and the signed transaction.
FinishBuild(b) ==
    /\ builds[b] = "build"
    /\ permits' = DropPermit(permits)
    /\ \E result \in {"Ok", "SolanaClientError"} :
          builds' = [builds EXCEPT ![b] = result]
    /\ UNCHANGED <<vaults, transaction_records, audit_logs, pending_operations, task>>
    /\ UNCHANGED <<chain, expires_at, cache, balance_snapshots, is_healthy,
                   critical_detected, now, rate_limit_buckets>>

\* Any number of tasks calling the builder.
NextBuild == \E b \in Builders : CallBuild(b) \/ Acquire(b) \/ FinishBuild(b)

SpecBuild == Init /\ [][NextBuild]_vars

\* The same, each build that holds a permit returning (the RPC call
\* returns), and the semaphore serving its waiters in turn (tokio's
\* Semaphore is fair).
SpecBuildFair ==
    /\ SpecBuild
    /\ \A b \in Builders : WF_vars(FinishBuild(b)) /\ SF_vars(Acquire(b))

(***************************************************************************)
(* Rate limiter: api.rs, database.rs                                       *)
(***************************************************************************)
Min(a, b) == IF a < b THEN a ELSE b

\* The bucket of a key at time `at`: created full on the first request,
\* refilled at the fixed rate up to its capacity since the last refill.
Refilled(buckets, key, capacity, refill, at) ==
    IF key \notin DOMAIN buckets THEN capacity
    ELSE Min(capacity, buckets[key].tokens + (at - buckets[key].last_refill) * refill)

\* Stored procedure consume_rate_limit_token, one atomic statement: the
\* bucket is refilled, and the cost is taken off it when it holds as much.
ConsumeRateLimitToken(buckets, key, cost, capacity, refill, at) ==
    LET tokens == Refilled(buckets, key, capacity, refill, at)
        allowed == tokens >= cost
        left == IF allowed THEN tokens - cost ELSE tokens
    IN [allowed |-> allowed, remaining_tokens |-> left,
        buckets |-> [k \in DOMAIN buckets \cup {key} |->
                        IF k = key THEN [tokens |-> left, last_refill |-> at]
                        ELSE buckets[k]]]

\* A request arrives at the router (a task serves one request after the
\* other); extract_client_identifier gives its client key.
Arrive(p) ==
    /\ task[p].pc \in {"idle", "done"}
    /\ \E client_id \in Clients :
          task' = [task EXCEPT ![p] =
                     [IdleTask EXCEPT !.pc = "rate_limit", !.op = "request",
                                      !.request = [client_id |-> client_id]]]
    /\ UNCHANGED <<vaults, transaction_records, audit_logs, pending_operations>>
    /\ UNCHANGED <<chain, services, expires_at>>

\* rate_limit_middleware: consume_tokens and the match on its result.
RateLimit(p) ==
    LET t == task[p]
        result == ConsumeRateLimitToken(rate_limit_buckets, t.request.client_id,
                                        TOKENS_PER_REQUEST, MAX_TOKENS, REFILL_RATE, now)
    IN
    /\ t.pc = "rate_limit"
    /\ \/ /\ rate_limit_buckets' = result.buckets
          /\ task' = [task EXCEPT ![p] =
                IF result.allowed
                THEN [t EXCEPT !.pc = "handler", !.limiter = "consumed"]
                ELSE [t EXCEPT !.pc = "done", !.ret = "TOO_MANY_REQUESTS",
                               !.limiter = "empty"]]
       \/ /\ UNCHANGED rate_limit_buckets
          /\ task' = [task EXCEPT ![p] = [t EXCEPT !.pc = "handler", !.limiter = "error"]]
    /\ UNCHANGED <<vaults, transaction_records, audit_logs, pending_operations>>
    /\ UNCHANGED <<chain, expires_at, cache, balance_snapshots, is_healthy,
                   critical_detected, now, permits, builds>>

\* next.run(request): the handler of the route runs and responds.
Handler(p) ==
    /\ task[p].pc = "handler"
    /\ task' = [task EXCEPT ![p] = [task[p] EXCEPT !.pc = "done", !.ret = "handled"]]
    /\ UNCHANGED <<vaults, transaction_records, audit_logs, pending_operations>>
    /\ UNCHANGED <<chain, services, expires_at>>

\* The router serving concurrent requests while time passes.
NextLimiter ==
    \/ \E p \in Procs : Arrive(p) \/ RateLimit(p) \/ Handler(p)
    \/ Tick

SpecLimiter == Init /\ [][NextLimiter]_vars

(***************************************************************************)
(* Bulk reconciliation: balance_tracker.rs                                 *)
(***************************************************************************)
\* The checks of reconcile_balances, each of which may add a discrepancy.
DiscrepancyFields == {"total_balance", "locked_balance", "available_balance",
                      "balance_invariant"}

\* What reconcile_balances returns for one vault id: an error (the vault is
\* not found, the store fails), or a result with its discrepancies.
ReconcileOutcomes ==
    {[ok |-> FALSE, discrepancies |-> 0]}
        \cup {[ok |-> TRUE, discrepancies |-> n] : n \in 0..Cardinality(DiscrepancyFields)}

\* results.len() - total_inconsistent, before the usize is stored.
ConsistentVaults(results_len, total_inconsistent) == results_len - total_inconsistent

\* bulk_reconcile is called with a batch of vault ids.
CallBulk(p) ==
    /\ task[p].pc = "idle"
    /\ \E n \in 0..MaxBatch :
          task' = [task EXCEPT ![p] =
              [IdleTask EXCEPT !.pc = "bulk_loop", !.op = "bulk_reconcile",
                   !.bulk = [vault_ids |-> n, left |-> n, results_len |-> 0, failed |-> 0,
                             total_inconsistent |-> 0, total_discrepancies |-> 0]]]
    /\ UNCHANGED <<vaults, transaction_records, audit_logs, pending_operations>>
    /\ UNCHANGED <<chain, services, expires_at>>

\* One turn of the loop: reconcile_balances on the next vault id and the
\* match on its result.
ReconcileOne(p) ==
    LET t == task[p]
        b == t.bulk
    IN
    /\ t.pc = "bulk_loop"
    /\ b.left > 0
    /\ \E r \in ReconcileOutcomes :
          task' = [task EXCEPT ![p] = [t EXCEPT !.bulk =
              IF r.ok
              THEN [b EXCEPT !.left = b.left - 1,
                             !.results_len = b.results_len + 1,
                             !.total_inconsistent =
                                 IF r.discrepancies > 0 THEN b.total_inconsistent + 1
                                 ELSE b.total_inconsistent,
                             !.total_discrepancies = b.total_discrepancies + r.discrepancies]
              ELSE [b EXCEPT !.left = b.left - 1,
                             !.failed = b.failed + 1,
                             !.total_inconsistent = b.total_inconsistent + 1,
                             !.total_discrepancies = b.total_discrepancies + 1]]]
    /\ UNCHANGED <<vaults, transaction_records, audit_logs, pending_operations>>
    /\ UNCHANGED <<chain, services, expires_at>>

\* After the loop: the result is built. A usize subtraction below zero
\* aborts the task in a build with overflow checks and wraps otherwise.
BulkReturn(p) ==
    LET t == task[p]
        b == t.bulk
        consistent == ConsistentVaults(b.results_len, b.total_inconsistent)
        result(c) == [total_vaults |-> b.results_len, consistent_vaults |-> c,
                      inconsistent_vaults |-> b.total_inconsistent,
                      total_discrepancies |-> b.total_discrepancies]
    IN
    /\ t.pc = "bulk_loop"
    /\ b.left = 0
    /\ \/ task' = [task EXCEPT ![p] =
              [t EXCEPT !.pc = "done", !.ret = "Ok", !.returned = result(consistent % Pow2(Bits))]]
       \/ /\ consistent < 0
          /\ task' = [task EXCEPT ![p] = Return(p, "Panic")]
    /\ UNCHANGED <<vaults, transaction_records, audit_logs, pending_operations>>
    /\ UNCHANGED <<chain, services, expires_at>>

\* One call of bulk_reconcile.
NextBulk == CallBulk("t1") \/ ReconcileOne("t1") \/ BulkReturn("t1")

SpecBulk == Init /\ [][NextBulk]_vars

(***************************************************************************)
(* Properties                                                              *)
(***************************************************************************)
Done(p) == task[p].pc = "done"

\* The vaults a call names.
Involved(t) == {t.vault_id, t.destination_vault_id}

\* Task p has executed a balance UPDATE on vault v.
Wrote(p, v) ==
    \/ "source" \in task[p].applied /\ task[p].vault_id = v
    \/ "destination" \in task[p].applied /\ task[p].destination_vault_id = v

\* The delta of the operation table that a call adds to vault v.
Delta(t, v) ==
    LET a == AsI64(t.amount) IN
    CASE t.op = "lock" /\ v = t.vault_id -> Balances(0, a, 0 - a)
      [] t.op = "unlock" /\ v = t.vault_id -> Balances(0, 0 - a, a)
      [] t.op = "transfer" ->
            Balances((IF v = t.destination_vault_id THEN a ELSE 0) - (IF v = t.vault_id THEN a ELSE 0),
                     IF v = t.vault_id THEN 0 - a ELSE 0,
                     IF v = t.destination_vault_id THEN a ELSE 0)
      [] OTHER -> Balances(0, 0, 0)

Plus(b, c) == Balances(b.total_balance + c.total_balance,
                       b.locked_balance + c.locked_balance,
                       b.available_balance + c.available_balance)

\* C1: every vault row satisfies total = locked + available with the three
\* balances non-negative, in every reachable state.
C1_BalanceInvariant ==
    \A v \in VaultIds :
        /\ vaults[v].total_balance = vaults[v].locked_balance + vaults[v].available_balance
        /\ vaults[v].total_balance >= 0
        /\ vaults[v].locked_balance >= 0
        /\ vaults[v].available_balance >= 0

\* C2: when two calls with distinct operation ids and amounts below 2^63, on
\* the same vault, overlap in time and both return success, the balances of
\* every vault are the initial ones plus the deltas of both calls.
C2_NoLostUpdate ==
    LET t1 == task["t1"]
        t2 == task["t2"]
    IN
    ( /\ Done("t1") /\ Done("t2")
      /\ t1.ret = "Ok" /\ t2.ret = "Ok"
      /\ "t2" \in t1.overlap
      /\ t1.operation_id # t2.operation_id
      /\ t1.amount <= MaxI64 /\ t2.amount <= MaxI64
      /\ Involved(t1) \cap Involved(t2) # {} )
    => \A v \in VaultIds :
          RowBalances(vaults[v]) = Plus(Plus(RowBalances(InitVault(v)), Delta(t1, v)), Delta(t2, v))

\* C3: of two overlapping lock_collateral calls with the same operation id on
\* the same vault, neither failing for another reason, exactly one succeeds
\* and the other returns ConcurrentConflict.
C3_SameOperationIdExcludes ==
    LET t1 == task["t1"]
        t2 == task["t2"]
    IN
    ( /\ Done("t1") /\ Done("t2")
      /\ t1.op = "lock" /\ t2.op = "lock"
      /\ t1.vault_id = t2.vault_id
      /\ t1.operation_id = t2.operation_id
      /\ "t2" \in t1.overlap
      /\ {t1.ret, t2.ret} \subseteq {"Ok", "ConcurrentConflict"} )
    => {t1.ret, t2.ret} = {"Ok", "ConcurrentConflict"}

Terminal(status) == status \in {"confirmed", "failed", "reverted"}

\* C7: once a transaction record is confirmed, failed or reverted, no step
\* changes its status.
C7_TerminalStatusIsFinal ==
    [][\A i \in 1..Len(transaction_records) :
          Terminal(transaction_records[i].status)
              => transaction_records'[i].status = transaction_records[i].status]_vars

\* C8: no call has returned leaving its transaction record confirmed without
\* having written the record's delta to the vault.
C8_ConfirmedImpliesApplied ==
    \A p \in Procs :
        ( /\ Done(p)
          /\ task[p].tx_record # 0
          /\ transaction_records[task[p].tx_record].status = "confirmed" )
        => "source" \in task[p].applied

\* C9: no transfer between two different vaults has returned with the source
\* vault debited and the destination vault not credited.
C9_TransferAtomic ==
    \A p \in Procs :
        ( /\ Done(p) /\ task[p].op = "transfer"
          /\ task[p].vault_id # task[p].destination_vault_id )
        => ("source" \in task[p].applied <=> "destination" \in task[p].applied)

\* C10: a call whose chain submission failed has written no balances, and
\* every vault it names that no other call has written holds the balances
\* the call read at entry.
C10_SubmitFailureLeavesBalances ==
    \A p \in Procs :
        task[p].result = "TransactionFailed" =>
            /\ task[p].applied = {}
            /\ task[p].pc \notin {"read_current", "write_balances", "audit"}
            /\ \A v \in Involved(task[p]) :
                  (\A q \in Procs \ {p} : ~Wrote(q, v)) =>
                      /\ v = task[p].vault_id =>
                            RowBalances(vaults[v]) = RowBalances(task[p].vault)
                      /\ (task[p].op = "transfer" /\ v = task[p].destination_vault_id) =>
                            RowBalances(vaults[v]) = RowBalances(task[p].destination_vault)

\* A transfer and a lock have both returned after a failed submission, while
\* nothing was written.
C10_Witness ==
    \E p \in Procs, q \in Procs :
        /\ p # q
        /\ Done(p) /\ task[p].op = "transfer" /\ task[p].ret = "TransactionFailed"
        /\ Done(q) /\ task[q].op = "lock" /\ task[q].ret = "TransactionFailed"

\* C4: no idempotency key is held by two transaction records.
C4_OneRecordPerKey ==
    \A k \in Keys : Cardinality(Holding(transaction_records, k)) <= 1

\* One request has created the record of a key while another request with
\* the same key, whose lookup found nothing, is about to insert its own.
C4_Witness ==
    \E p \in Procs, q \in Procs :
        /\ p # q
        /\ task[p].ret = "Created" /\ task[p].idempotency_key # None
        /\ task[q].idempotency_key = task[p].idempotency_key
        /\ task[q].pc = "begin"

C6_OneRecordPerSignature ==
    \A i, j \in 1..Len(transaction_records) :
        ( /\ transaction_records[i].signature # None
          /\ transaction_records[i].signature = transaction_records[j].signature )
        => i = j

\* Every signature is taken, one of them stored by an update: any further
\* record or update with a signature is one with a stored signature.
C6_Witness ==
    /\ \A sig \in Signatures :
          \E i \in 1..Len(transaction_records) : transaction_records[i].signature = sig
    /\ \E i \in 1..Len(transaction_records) :
          /\ transaction_records[i].status = "processing"
          /\ transaction_records[i].signature # None
    /\ \E i \in 1..Len(transaction_records) :
          /\ transaction_records[i].status = "pending"
          /\ transaction_records[i].signature = None

\* C11: when a call has returned after its chain submission failed, the
\* transaction record it created is failed and carries the failure reason.
C11_FailedSubmissionMarksRecord ==
    \A p \in Procs :
        ( /\ Done(p)
          /\ task[p].result = "TransactionFailed"
          /\ task[p].tx_record # 0 )
        => /\ transaction_records[task[p].tx_record].status = "failed"
           /\ transaction_records[task[p].tx_record].error_message # None

\* C13: when a call has returned, whatever it returned, its operation id is
\* not in the pending set (unless another call with the same operation id
\* is still running).
C13_PendingEntryRemoved ==
    \A p \in Procs :
        ( /\ Done(p)
          /\ task[p].operation_id # None
          /\ \A q \in Procs \ {p} :
                InFlight(q) => task[q].operation_id # task[p].operation_id )
        => task[p].operation_id \notin pending_operations

\* C12: a request rejected by its balance pre-check (the amount, as the
\* signed value the check compares, is above the available balance for lock
\* and withdraw, above the locked balance for unlock and transfer) returns
\* InsufficientBalance and has written nothing: no transaction record, no
\* pending entry, no audit row, and every vault row holds its initial
\* balances.
C12_PreCheckRejectionWritesNothing ==
    \A p \in Procs :
        LET t == task[p]
            balance == IF t.op = "lock" THEN t.vault.available_balance
                                        ELSE t.vault.locked_balance
            rejected ==
                \/ t.ret = "InsufficientBalance"
                \/ /\ Done(p)
                   /\ t.op \in {"lock", "unlock", "transfer"}
                   /\ t.ret # "NotFound"
                   /\ balance < AsI64(t.amount)
        IN
        rejected =>
            /\ t.ret = "InsufficientBalance"
            /\ t.tx_record = 0 /\ t.destination_tx_record = 0 /\ t.applied = {}
            /\ transaction_records = <<>>
            /\ audit_logs = {}
            /\ pending_operations = {}
            /\ \A v \in VaultIds : RowBalances(vaults[v]) = RowBalances(chain_vaults[v])

\* A transfer of one more than the locked balance of its source has been
\* rejected after both rows were read.
C12_Witness ==
    \E p \in Procs :
        /\ Done(p) /\ task[p].op = "transfer" /\ task[p].ret = "InsufficientBalance"
        /\ task[p].amount = task[p].vault.locked_balance + 1

\* The three values of a triple are not total = locked + available.
Unbalanced(b) == b.total_balance # b.locked_balance + b.available_balance

\* C14: an update_balances call given a triple with total # locked +
\* available does not return success and has not written the vault row,
\* whatever other update_balances calls run at the same time.
C14_UnbalancedTripleRejected ==
    \A p \in Procs :
        ( /\ Done(p) /\ task[p].op = "update_balances"
          /\ Unbalanced(task[p].requested) )
        => /\ task[p].ret # "Ok"
           /\ task[p].applied = {}

\* C15: an update_balances call given a triple with a negative value does
\* not return success and has not written the vault row.
C15_NegativeValueRejected ==
    \A p \in Procs :
        ( /\ Done(p) /\ task[p].op = "update_balances"
          /\ \/ task[p].requested.total_balance < 0
             \/ task[p].requested.locked_balance < 0
             \/ task[p].requested.available_balance < 0 )
        => /\ task[p].ret # "Ok"
           /\ task[p].applied = {}

\* C16: no owner has two active vaults, and a create_vault call that met an
\* active vault of its owner, at its check or at its INSERT, has returned
\* VaultAlreadyExists.
C16_OneActiveVaultPerOwner ==
    /\ \A u \in Owners : Cardinality(ActiveVaultsOf(vaults, u)) <= 1
    /\ \A p \in Procs :
          (Done(p) /\ task[p].op = "create_vault" /\ task[p].result = "duplicate")
          => task[p].ret = "VaultAlreadyExists"

\* The delta the operation table gives a call on vault v, for its amount a:
\* lock (0, +a, -a), unlock (0, -a, +a), transfer (-a, -a, 0) on the source
\* and (+a, 0, +a) on the destination.
TableDelta(t, v) ==
    LET a == t.amount IN
    CASE t.op = "lock" /\ v = t.vault_id -> Balances(0, a, 0 - a)
      [] t.op = "unlock" /\ v = t.vault_id -> Balances(0, 0 - a, a)
      [] t.op = "transfer" /\ v = t.vault_id -> Balances(0 - a, 0 - a, 0)
      [] t.op = "transfer" /\ v = t.destination_vault_id -> Balances(a, 0, a)
      [] OTHER -> Balances(0, 0, 0)

\* C17: when the only request served is a lock, an unlock or a transfer
\* between two different vaults and it has returned success, every vault
\* row holds its initial balances plus the table delta of the operation.
C17_ExactDelta ==
    LET t == task["t1"] IN
    ( /\ Done("t1") /\ t.ret = "Ok"
      /\ t.op \in {"lock", "unlock", "transfer"}
      /\ t.op = "transfer" => t.vault_id # t.destination_vault_id )
    => \A v \in VaultIds :
          RowBalances(vaults[v]) = Plus(RowBalances(chain_vaults[v]), TableDelta(t, v))

\* The balance the pre-check of a request compares its amount with, on the
\* row the request read: available for lock and withdraw, locked for unlock.
CheckedBalance(t) ==
    CASE t.op = "lock" -> t.vault.available_balance
      [] t.op = "unlock" -> t.vault.locked_balance
      [] OTHER -> vaults[t.vault_id].available_balance

\* C19: a lock, unlock or withdraw request that read its vault row and
\* returned is not rejected as InsufficientBalance when its amount is exactly
\* the balance its pre-check compares, and is rejected as InsufficientBalance
\* when its amount is that balance plus one.
C19_PreCheckBoundary ==
    LET t == task["t1"] IN
    ( /\ Done("t1")
      /\ t.op \in {"lock", "unlock", "withdraw"}
      /\ t.ret \notin {"NotFound", "DatabaseError: lookup"} )
    => /\ t.amount = CheckedBalance(t) => t.ret # "InsufficientBalance"
       /\ t.amount = CheckedBalance(t) + 1 => t.ret = "InsufficientBalance"

\* C20: a lock, unlock or transfer whose u64 amount is above the balance it
\* draws on (on the row it read) is rejected as InsufficientBalance, and no
\* vault row ever holds a value outside 0 .. 2^63 - 1 or a value other than
\* the exact sum of its initial balance and the deltas written to it.
C20_NoWrappedValue ==
    LET t == task["t1"] IN
    /\ ( /\ Done("t1")
          /\ t.op \in {"lock", "unlock", "transfer"}
          /\ t.ret # "NotFound"
          /\ t.amount > (IF t.op = "lock" THEN t.vault.available_balance
                                          ELSE t.vault.locked_balance) )
       => t.ret = "InsufficientBalance"
    /\ \A v \in VaultIds :
          /\ vaults[v].total_balance \in 0..MaxI64
          /\ vaults[v].locked_balance \in 0..MaxI64
          /\ vaults[v].available_balance \in 0..MaxI64
          /\ Wrote("t1", v) =>
                \/ RowBalances(vaults[v]) = Plus(RowBalances(chain_vaults[v]), TableDelta(t, v))
                \/ /\ t.op = "transfer" /\ t.vault_id = t.destination_vault_id
                   /\ RowBalances(vaults[v]) = RowBalances(chain_vaults[v])
                \/ /\ t.op = "transfer" /\ v = t.vault_id /\ "destination" \notin t.applied

\* C18: a lock that returned success followed by an unlock of the same
\* amount that returned success leaves the vault row with the locked and
\* available balances it had before the lock, and the total never moves
\* while the two run; and on chain, lock_collateral followed by
\* unlock_collateral of the same amount, both executed, leaves the account
\* with the balances it had before, the total not moving in between.
C18_LockUnlockRestores ==
    LET t1 == task["t1"]
        t2 == task["t2"]
    IN
    /\ (t1.op = "lock" /\ t2.op \in {None, "unlock"}) =>
          vaults["v1"].total_balance = chain_vaults["v1"].total_balance
    /\ ( /\ t1.op = "lock" /\ t1.ret = "Ok"
          /\ t2.op = "unlock" /\ t2.ret = "Ok" ) =>
          RowBalances(vaults["v1"]) = RowBalances(chain_vaults["v1"])
    /\ ( /\ Len(chain_log) = 2
          /\ chain_log[1].ix = "lock_collateral" /\ chain_log[1].err = None
          /\ chain_log[2].ix = "unlock_collateral" /\ chain_log[2].err = None ) =>
          /\ chain_log[2].after = chain_log[1].before
          /\ chain_log[1].after.total_balance = chain_log[1].before.total_balance
          /\ chain_log[1].after # chain_log[1].before

\* A lock and then an unlock of the same amount have returned success on a
\* vault that had balances locked and available before.
C18_Witness ==
    /\ task["t1"].op = "lock" /\ task["t1"].ret = "Ok"
    /\ task["t2"].op = "unlock" /\ task["t2"].ret = "Ok"
    /\ task["t1"].amount = task["t2"].amount
    /\ task["t1"].amount > 1
    /\ task["t1"].vault.locked_balance > 0
    /\ task["t1"].vault.available_balance > task["t1"].amount
    /\ task["t2"].vault.locked_balance = task["t1"].vault.locked_balance + task["t1"].amount

\* On chain, lock_collateral and then unlock_collateral of the same amount
\* have been executed.
C18_ChainRoundTrip ==
    /\ Len(chain_log) = 2
    /\ chain_log[1].ix = "lock_collateral" /\ chain_log[1].err = None
    /\ chain_log[2].ix = "unlock_collateral" /\ chain_log[2].err = None
    /\ chain_log[1].amount > 1

\* On chain, every instruction executed with amount 0 failed with InvalidAmount
\* and left the account as it was.
ChainZeroAmountRejected ==
    \A i \in 1..Len(chain_log) :
        chain_log[i].amount = 0 =>
            /\ chain_log[i].err = "InvalidAmount"
            /\ chain_log[i].after = chain_log[i].before

\* C21: an operation with amount 0 is rejected and changes nothing: on chain
\* the instruction fails and leaves the account as it was; a lock_collateral,
\* unlock_collateral or transfer_collateral call with amount 0 gets no further
\* than its vault lookups, creates no transaction record, leaves no pending
\* entry, writes no balance and returns an error.
C21_ZeroAmountRejected ==
    /\ ChainZeroAmountRejected
    /\ \A p \in Procs :
          (task[p].op \in {"lock", "unlock", "transfer"} /\ task[p].amount = 0) =>
              /\ task[p].pc \in {"get_vault", "get_destination", "done"}
              /\ Done(p) => task[p].ret # "Ok"
              /\ task[p].tx_record = 0 /\ task[p].destination_tx_record = 0
              /\ task[p].applied = {}
              /\ task[p].operation_id \notin pending_operations

\* C22: a transfer request that found both vaults is rejected by a balance
\* pre-check exactly when the locked balance of its source is below the
\* amount; the available balance of the source plays no part.
C22_TransferChecksLocked ==
    LET t == task["t1"] IN
    ( /\ Done("t1") /\ t.op = "transfer"
      /\ t.ret # "NotFound" )
    => ( t.ret \in {"InsufficientBalance", "InsufficientLockedBalance"}
            <=> t.request.vault.locked_balance < t.amount )

\* The transfer of the claim's example, scaled: MaxI64 - 4 of a source with
\* MaxI64 - 2 locked and 2 available, rejected by the handler.
C22_AvailableRejects ==
    LET t == task["t1"] IN
    /\ Done("t1") /\ t.op = "transfer" /\ t.ret = "InsufficientBalance"
    /\ t.request.rejected
    /\ t.request.vault.locked_balance = MaxI64 - 2
    /\ t.request.vault.available_balance = 2
    /\ t.amount = MaxI64 - 4

\* The balance_updated audit rows of a vault.
BalanceUpdates(v) ==
    {e \in audit_logs : e.event_type = "balance_updated" /\ e.vault_id = v}

Minus(b, c) == Balances(b.total_balance - c.total_balance,
                        b.locked_balance - c.locked_balance,
                        b.available_balance - c.available_balance)

\* The sum of new - old over a set of audit rows.
RECURSIVE SumOfDeltas(_)
SumOfDeltas(entries) ==
    IF entries = {} THEN Balances(0, 0, 0)
    ELSE LET e == CHOOSE x \in entries : TRUE IN
         Plus(Minus(e.new, e.old), SumOfDeltas(entries \ {e}))

\* C23: whenever no update_balances call is running, the balance_updated
\* audit rows of every vault add up (new - old, for total, locked and
\* available) to the current balances of the vault minus its initial ones,
\* whether the calls interleaved or failed after their balance write.
C23_AuditDeltasAddUp ==
    (\A p \in Procs : ~InFlight(p)) =>
        \A v \in VaultIds :
            SumOfDeltas(BalanceUpdates(v)) =
                Minus(RowBalances(vaults[v]), RowBalances(InitVault(v)))

\* Two update_balances calls have returned success after both read the row
\* before either wrote it.
C23_Interleaved ==
    /\ \A p \in Procs : Done(p) /\ task[p].ret = "Ok"
    /\ task["t1"].current = task["t2"].current
    /\ task["t1"].requested # task["t2"].requested
    /\ SumOfDeltas(BalanceUpdates("v1")) #
          Minus(RowBalances(vaults["v1"]), RowBalances(InitVault("v1")))

\* The balances get_balance returns for a row.
U64Balances(b) ==
    Balances(AsU64(b.total_balance), AsU64(b.locked_balance), AsU64(b.available_balance))

\* C24: a get_balance call made after an update_balances call on the same
\* vault has returned success returns the balances that call wrote, whenever
\* the cache entry of the vault was installed.
C24_WriteInvalidatesCache ==
    \A p \in Procs, q \in Procs :
        ( /\ Done(p) /\ task[p].op = "get_balance" /\ task[p].ret = "Ok"
          /\ q \in task[p].after
          /\ task[q].op = "update_balances" /\ task[q].ret = "Ok"
          /\ task[q].vault_id = task[p].vault_id )
        => task[p].returned = U64Balances(task[q].requested)

\* C25: a reconcile_balances call that returns a report on a vault no call
\* has written reports is_consistent = true and no discrepancy, whatever
\* reads, snapshots, reconciliations and cache expiries came before.
C25_NeverMutatedConsistent ==
    \A p \in Procs :
        ( /\ Done(p) /\ task[p].op = "reconcile_balances" /\ task[p].ret = "Ok"
          /\ \A q \in Procs : ~Wrote(q, task[p].vault_id) )
        => /\ task[p].returned.is_consistent
           /\ task[p].returned.discrepancies = {}

\* A reconciliation of the second vault has reported, from a cache entry
\* that a snapshot has marked, after the entry before it had expired and
\* the first vault had been written.
C25_Witness ==
    /\ Done("t2") /\ task["t2"].op = "reconcile_balances" /\ task["t2"].ret = "Ok"
    /\ task["t2"].vault_id = "v2"
    /\ "v2" \in DOMAIN cache
    /\ cache["v2"].last_snapshot # NoTime
    /\ cache["v2"].last_updated >= CacheTtl
    /\ balance_snapshots # {}
    /\ Wrote("t1", "v1")

\* C26: in every state after a reconciliation or a health check has found a
\* critical issue (a negative balance, or total # locked + available), the
\* health status is unhealthy: no later health check sets it back.
C26_CriticalStaysUnhealthy == critical_detected => ~is_healthy

\* The service crashed while a call had marked its record confirmed and had
\* not written the balances of its vault.
CrashedBeforeApply ==
    /\ task["t1"].pc = "crashed"
    /\ task["t1"].tx_record # 0
    /\ transaction_records[task["t1"].tx_record].status = "confirmed"
    /\ "source" \notin task["t1"].applied

\* C27: when the service crashed after the submission was confirmed and
\* before the ledger delta was written, the monitor running after the
\* restart eventually writes that delta to the vault.
C27_ConfirmedDeltaRecovered ==
    CrashedBeforeApply ~>
        (RowBalances(vaults["v1"]) =
            Plus(RowBalances(InitVault("v1")), TableDelta(task["t1"], "v1")))

\* C28: a call that finds, at its pending check, an entry of its operation
\* id whose expires_at has passed is not rejected with ConcurrentConflict.
C28_ExpiredEntryDoesNotBlock ==
    [][\A p \in Procs :
          ( /\ task[p].pc = "check_pending"
            /\ task[p].operation_id \in pending_operations
            /\ expires_at[task[p].operation_id] <= now
            /\ task'[p].pc = "done" )
          => task'[p].ret # "ConcurrentConflict"]_vars

\* C30: once a vault is deactivated, the lookup of a lock or transfer call
\* that names it (as source or as destination) fails with NotFound, and no
\* step changes the balances of its row.
C30_DeactivatedVaultUntouched ==
    [][/\ \A p \in Procs :
             ( /\ task[p].pc = "get_vault"
               /\ ~vaults[task[p].vault_id].is_active
               /\ task'[p] # task[p] )
             => task'[p].ret = "NotFound"
       /\ \A p \in Procs :
             ( /\ task[p].pc = "get_destination"
               /\ ~vaults[task[p].destination_vault_id].is_active
               /\ task'[p] # task[p] )
             => task'[p].ret = "NotFound"
       /\ \A v \in VaultIds :
             ~vaults[v].is_active => RowBalances(vaults'[v]) = RowBalances(vaults[v])]_vars

\* A call made on a deactivated vault has written the balances of its row.
C30_WroteDeactivated ==
    \E p \in Procs :
        /\ Wrote(p, "v1")
        /\ ~task[p].vault.is_active
        /\ RowBalances(vaults["v1"]) # RowBalances(InitVault("v1"))

\* C29: after any sequence of successful instructions of the program, every
\* vault account satisfies total = locked + available.
C29_ChainBalanceInvariant ==
    \A v \in VaultIds :
        chain_vaults[v].total_balance =
            chain_vaults[v].locked_balance + chain_vaults[v].available_balance

\* Both accounts were created and funded; the first holds locked and
\* available balances, the second holds more than every deposit into it can
\* have left next to a withdrawal: instructions of every kind have run.
C29_Witness ==
    /\ \A v \in VaultIds : chain_vaults[v].is_active
    /\ chain_vaults["v1"].locked_balance = 2
    /\ chain_vaults["v1"].available_balance = 1
    /\ chain_vaults["v2"].total_balance = MaxU64
    /\ chain_vaults["v2"].locked_balance = MaxU64 - 1

\* The sum of the total balances of the ledger rows.
LedgerTotal(vs) == vs["v1"].total_balance + vs["v2"].total_balance

\* The sum of total_balance over the on-chain vault accounts.
ChainTotal(accs) == accs["v1"].total_balance + accs["v2"].total_balance

\* The balances a transfer computed stayed inside i64.
InRange(t) ==
    /\ t.amount <= MaxI64
    /\ ~AnyOverflow(NewBalances("transfer", "source", t.vault, t.amount))
    /\ ~AnyOverflow(NewBalances("transfer", "destination", t.destination_vault, t.amount))

\* C31: when no call is in flight and every call made was a transfer that
\* returned success (no balance leaving the range of i64), the sum of the
\* total balances of all vault rows is the sum before the calls: same vault
\* on both sides and overlapping transfers included.
C31_TransferConservesTotal ==
    ( /\ \A p \in Procs : task[p].pc \in {"idle", "done"}
      /\ \A p \in Procs :
            Done(p) => task[p].op = "transfer" /\ task[p].ret = "Ok" /\ InRange(task[p]) )
    => LedgerTotal(vaults) = LedgerTotal([v \in VaultIds |-> InitVault(v)])

\* C31, one transfer between two different vaults, alone: the sum of the
\* totals is kept.
C31_DistinctVaultsConserve ==
    ( /\ task["t2"].pc = "idle" /\ Done("t1")
      /\ task["t1"].op = "transfer" /\ task["t1"].ret = "Ok" /\ InRange(task["t1"])
      /\ task["t1"].vault_id # task["t1"].destination_vault_id )
    => LedgerTotal(vaults) = LedgerTotal([v \in VaultIds |-> InitVault(v)])

\* C31, on chain: no transfer_collateral instruction that executes changes
\* the sum of total_balance over the vault accounts.
C31_ChainTransferConserves ==
    \A v \in VaultIds, d \in VaultIds, amount \in AnyAmount :
        LET r == TransferCollateral(chain_vaults, v, d, amount, TRUE, TRUE) IN
        r.err = None => ChainTotal(r.accounts) = ChainTotal(chain_vaults)

\* C31, on chain, between two different accounts.
C31_ChainDistinctConserves ==
    \A v \in VaultIds, d \in VaultIds, amount \in AnyAmount :
        LET r == TransferCollateral(chain_vaults, v, d, amount, TRUE, TRUE) IN
        v # d /\ r.err = None => ChainTotal(r.accounts) = ChainTotal(chain_vaults)

\* The call ended without an error of the store and without a balance
\* leaving the range of i64.
CleanReturn(t) ==
    /\ t.ret \in {"Ok", "InsufficientBalance", "ConcurrentConflict", "TransactionFailed",
                  "SolanaClientError"}
    /\ t.op = "transfer" /\ t.ret = "Ok" => InRange(t)

\* C32: whenever no coordinator operation is in flight (and none ended with
\* a store error), the balances of each vault row are those of its on-chain
\* account.
C32_LedgerEqualsChain ==
    ( /\ \A p \in Procs : task[p].pc \in {"idle", "done"}
      /\ \A p \in Procs : Done(p) => CleanReturn(task[p]) )
    => \A v \in VaultIds : RowBalances(vaults[v]) = RowBalances(chain_vaults[v])

\* C32, one call alone: row and account agree when it has returned.
C32_OneCallAgrees ==
    ( /\ task["t2"].pc = "idle" /\ Done("t1") /\ CleanReturn(task["t1"]) )
    => \A v \in VaultIds : RowBalances(vaults[v]) = RowBalances(chain_vaults[v])

\* C32, calls that do not overlap: rows and accounts agree when both have
\* returned.
C32_CallsInTurnAgree ==
    ( /\ Done("t1") /\ Done("t2") /\ task["t1"].overlap = {}
      /\ CleanReturn(task["t1"]) /\ CleanReturn(task["t2"]) )
    => \A v \in VaultIds : RowBalances(vaults[v]) = RowBalances(chain_vaults[v])

\* C33: when a transfer_collateral call has returned success or the error
\* of its submission, its two transaction records are both confirmed if it
\* returned success and both failed if it returned the error.
C33_TransferRecordsAgree ==
    \A p \in Procs :
        ( /\ Done(p) /\ task[p].op = "transfer"
          /\ task[p].ret \in {"Ok", "TransactionFailed"} )
        => LET source == transaction_records[task[p].tx_record].status
               destination == transaction_records[task[p].destination_tx_record].status
           IN IF task[p].ret = "Ok"
              THEN source = "confirmed" /\ destination = "confirmed"
              ELSE source = "failed" /\ destination = "failed"

\* C33, success: the destination record is confirmed.
C33_DestinationConfirmed ==
    \A p \in Procs :
        ( /\ Done(p) /\ task[p].op = "transfer" /\ task[p].ret = "Ok" )
        => transaction_records[task[p].destination_tx_record].status = "confirmed"

\* C33, submission failure: the source record is failed.
C33_SourceFailed ==
    \A p \in Procs :
        ( /\ Done(p) /\ task[p].op = "transfer" /\ task[p].ret = "TransactionFailed" )
        => transaction_records[task[p].tx_record].status = "failed"

\* C34: every transaction record in status confirmed holds an on-chain
\* signature.
C34_ConfirmedHasSignature ==
    \A i \in 1..Len(transaction_records) :
        transaction_records[i].status = "confirmed"
            => transaction_records[i].signature # None

\* C34, the way there: a record becomes confirmed only from processing.
C34_ConfirmedFromProcessing ==
    [][\A i \in 1..Len(transaction_records) :
          ( /\ transaction_records'[i].status = "confirmed"
            /\ transaction_records[i].status # "confirmed" )
          => transaction_records[i].status = "processing"]_vars

\* C35: every transaction record the coordinator creates eventually is in
\* a terminal status (confirmed, failed or reverted), the stale-cleanup
\* loop being fair.
C35_EveryRecordTerminates ==
    \A i \in 1..2 :
        (Len(transaction_records) >= i)
            ~> (Len(transaction_records) >= i /\ Terminal(transaction_records[i].status))

\* A transfer returned the error of its submission, which left its source
\* record pending, and the cleanup has expired that record.
C35_Witness ==
    /\ Done("t1") /\ task["t1"].op = "transfer" /\ task["t1"].ret = "TransactionFailed"
    /\ transaction_records[task["t1"].tx_record].status = "failed"
    /\ transaction_records[task["t1"].tx_record].error_message = "Transaction expired"

\* The attempts of a call before its last one.
Earlier(t) == {t.outcomes[i] : i \in 1..(Len(t.outcomes) - 1)}

\* What every state of a submit_transaction call satisfies: at most
\* max_retries + 1 attempts; an attempt that was confirmed is the last one
\* and the call returned the signature; a call that returned the signature
\* made a confirmed attempt; a call that returned TransactionFailed made
\* max_retries + 1 attempts, none confirmed.
SubmitBounded(t) ==
    /\ Len(t.outcomes) <= t.max_retries + 1
    /\ "confirmed" \notin Earlier(t)
    /\ ( t.outcomes # <<>> /\ t.outcomes[Len(t.outcomes)] = "confirmed" )
           => t.pc = "done" /\ t.ret = "Ok"
    /\ ( t.pc = "done" /\ t.ret = "Ok" )
           => t.outcomes # <<>> /\ t.outcomes[Len(t.outcomes)] = "confirmed"
    /\ ( t.pc = "done" /\ t.ret = "TransactionFailed" )
           => /\ Len(t.outcomes) = t.max_retries + 1
              /\ \A i \in 1..Len(t.outcomes) : t.outcomes[i] # "confirmed"
    /\ t.pc = "done" => t.ret \in {"Ok", "TransactionFailed"}

\* C36: submit_transaction always terminates, with at most max_retries + 1
\* send attempts; it returns the signature as soon as an attempt is sent and
\* confirmed, TransactionFailed after max_retries + 1 failed attempts, and
\* never a signature for an attempt that was not confirmed.
C36_SubmitTerminates ==
    /\ [](\A p \in Procs : task[p].op = "submit_transaction" => SubmitBounded(task[p]))
    /\ \A p \in Procs : (task[p].op = "submit_transaction") ~> Done(p)

\* A call configured with max_retries = 2 returned the signature on its
\* third attempt, after a network failure and an unconfirmed send.
C36_Witness ==
    /\ Done("t1") /\ task["t1"].max_retries = 2 /\ task["t1"].ret = "Ok"
    /\ task["t1"].outcomes = <<"transient", "not_confirmed", "confirmed">>

\* A call configured with max_retries = 3 returned TransactionFailed after
\* four attempts.
C36_Exhausted ==
    /\ Done("t1") /\ task["t1"].max_retries = 3 /\ task["t1"].ret = "TransactionFailed"
    /\ Len(task["t1"].outcomes) = 4

\* C37: an attempt that fails for a deterministic reason is the last one of
\* its call: the call makes no attempt after it and does not wait to make
\* one.
C37_DeterministicNotRetried ==
    \A p \in Procs : \A i \in 1..Len(task[p].outcomes) :
        task[p].outcomes[i] = "deterministic"
            => i = Len(task[p].outcomes) /\ task[p].pc = "done"

\* C37, the other half: a transient failure is retried while retries are
\* left.
C37_TransientRetried ==
    \A p \in Procs :
        ( /\ Done(p) /\ task[p].ret = "TransactionFailed"
          /\ \A i \in 1..Len(task[p].outcomes) : task[p].outcomes[i] = "transient" )
        => Len(task[p].outcomes) = task[p].max_retries + 1

\* C38: at every instant at most max_concurrent_tx builds are in progress
\* and every permit is either available or held by a build in progress; a
\* build that waits for a permit eventually proceeds, whether the builds
\* before it ended with a transaction or with an error.
C38_BuildsBounded ==
    /\ []( /\ Cardinality(InProgress) <= max_concurrent_tx
           /\ permits + Cardinality(InProgress) = max_concurrent_tx )
    /\ \A b \in Builders : (builds[b] = "acquire") ~> (builds[b] = "build")

\* Every permit is held, one build waits, and another has ended with an
\* error.
C38_Witness ==
    /\ Cardinality(InProgress) = max_concurrent_tx
    /\ permits = 0
    /\ \E b \in Builders : builds[b] = "acquire"
    /\ \E b \in Builders : builds[b] = "SolanaClientError"

\* C38, the count alone: never more builds in progress than permits.
C38_AtMostMax ==
    /\ Cardinality(InProgress) <= max_concurrent_tx
    /\ permits + Cardinality(InProgress) = max_concurrent_tx

\* The handler of the request of task p runs or has run.
ReachedHandler(p) == task[p].pc = "handler" \/ (Done(p) /\ task[p].ret = "handled")

\* C39: a request reaches its handler only if the limiter consumed a token
\* for its client key.
C39_HandlerOnlyAfterToken ==
    \A p \in Procs :
        (task[p].op = "request" /\ ReachedHandler(p)) => task[p].limiter = "consumed"

\* C39, empty bucket: the request is rejected and its handler does not run.
C39_EmptyBucketRejects ==
    \A p \in Procs :
        (task[p].op = "request" /\ task[p].limiter = "empty")
            => Done(p) /\ task[p].ret = "TOO_MANY_REQUESTS"

\* A request was rejected on an empty bucket.
C39_Rejected ==
    \E p \in Procs : task[p].op = "request" /\ task[p].limiter = "empty"

\* C40: bulk_reconcile returns a result for every batch, and in it
\* consistent_vaults + inconsistent_vaults is the number of vault ids of the
\* batch.
C40_CountsAddUp ==
    \A p \in Procs :
        (Done(p) /\ task[p].op = "bulk_reconcile")
            => /\ task[p].ret = "Ok"
               /\ task[p].returned.consistent_vaults + task[p].returned.inconsistent_vaults
                      = task[p].bulk.vault_ids

\* C40, batches of which no reconciliation fails: the counts add up.
C40_NoFailureCountsAddUp ==
    \A p \in Procs :
        (Done(p) /\ task[p].op = "bulk_reconcile" /\ task[p].bulk.failed = 0)
            => /\ task[p].ret = "Ok"
               /\ task[p].returned.consistent_vaults + task[p].returned.inconsistent_vaults
                      = task[p].bulk.vault_ids

\* C40, batches with failures whose subtraction stays above zero: the
\* counts of the result add up.
C40_FailureCounted ==
    \A p \in Procs :
        ( /\ Done(p) /\ task[p].op = "bulk_reconcile" /\ task[p].ret = "Ok"
          /\ task[p].bulk.failed > 0
          /\ task[p].bulk.results_len >= task[p].bulk.total_inconsistent )
            => task[p].returned.consistent_vaults + task[p].returned.inconsistent_vaults
                   = task[p].bulk.vault_ids

====
